---------------------------- MODULE Spec2Model ----------------------------
(***************************************************************************)
(* Model of the Flappy-Bird web backend: the Flask handlers of web_app.py  *)
(* running concurrently over the SQLite storage of database.py.            *)
(*                                                                         *)
(* Text values (emails, usernames, passwords) are sequences of one-        *)
(* character strings, so that strip(), len() and the e-mail pattern are    *)
(* computed as the code computes them.  A JSON body or the Flask session   *)
(* is a dictionary: a function whose DOMAIN is the set of keys present.    *)
(***************************************************************************)
EXTENDS Integers, Sequences, FiniteSets, TLC

\* ------------------------------------------------------------- bounds ---
\* Requests accepted in one run (caps the counters and the tables).
MaxRequests == 3
\* The clock counts ticks, Hour of them to the hour, up to MaxTime.
Hour == 2
MaxTime == 4

\* ---------------------------------------------------------- constants ---
\* users.coins INTEGER DEFAULT 25
DefaultCoins == 25
\* len(password) < 6
MinPasswordLen == 6
\* def get_leaderboard(self, limit=100)
DefaultLimit == 100

\* SQL NULL in a text column.
NULL == "NULL"
\* SQL NULL in the DATETIME column reset_token_expires, whose other values
\* are the texts of datetimes (never empty).
NullTime == <<>>

\* ------------------------------------------------------------ text ------
Lower == {"a","b","c","d","e","f","g","h","i","j","k","l","m",
          "n","o","p","q","r","s","t","u","v","w","x","y","z"}
Upper == {"A","B","C","D","E","F","G","H","I","J","K","L","M",
          "N","O","P","Q","R","S","T","U","V","W","X","Y","Z"}
Digit == {"0","1","2","3","4","5","6","7","8","9"}
Whitespace == {" ", "\t", "\n", "\r"}

\* str.strip(): leading and trailing whitespace removed.
RECURSIVE lstrip(_)
lstrip(s) == IF s # <<>> /\ Head(s) \in Whitespace THEN lstrip(Tail(s)) ELSE s
RECURSIVE rstrip(_)
rstrip(s) == IF s # <<>> /\ s[Len(s)] \in Whitespace
             THEN rstrip(SubSeq(s, 1, Len(s) - 1)) ELSE s
strip(s) == rstrip(lstrip(s))

\* re.match(r'^[a-zA-Z0-9._%+-]+@[a-zA-Z0-9.-]+\.[a-zA-Z]{2,}$', email)
LocalChars == Lower \cup Upper \cup Digit \cup {".", "_", "%", "+", "-"}
DomainChars == Lower \cup Upper \cup Digit \cup {".", "-"}
is_valid_email(email) ==
    \E i \in 1..Len(email) : \E j \in 1..Len(email) :
        /\ 1 < i /\ i + 1 < j /\ j + 2 <= Len(email)
        /\ email[i] = "@" /\ email[j] = "."
        /\ \A k \in 1..(i - 1) : email[k] \in LocalChars
        /\ \A k \in (i + 1)..(j - 1) : email[k] \in DomainChars
        /\ \A k \in (j + 1)..Len(email) : email[k] \in Lower \cup Upper

\* dict.get(key, default)
Get(data, key, default) == IF key \in DOMAIN data THEN data[key] ELSE default

\* The empty dictionary {} and the empty string ''.
EmptyDict == <<>>
EmptyStr == <<>>

\* -------------------------------------------------------- input sets ----
EmailA == <<"a", "@", "x", ".", "i", "o">>
EmailB == <<"b", "@", "x", ".", "i", "o">>
EmailAPadded == <<" ">> \o EmailA \o <<" ">>
EmailBad == <<"a", "@", "x">>
EmailC == <<"c", "@", "x", ".", "i", "o">>
Cy == <<"c", "y">>
EmailNobody == <<"n", "@", "x", ".", "i", "o">>
Ann == <<"a", "n", "n">>
Bob == <<"b", "o", "b">>
Secret == <<"s", "e", "c", "r", "e", "t">>
Hunter == <<"h", "u", "n", "t", "e", "r">>
Short == <<"a", "b", "c">>

Tokens == {"tok1", "tok2"}
Sessions == {"s1", "s2"}
\* Handler threads: two requests can be in progress at the same time.
Procs == {1, 2}

SignupBodies ==
    [email : {EmailA, EmailB, EmailAPadded}, username : {Ann, Bob},
     password : {Secret}, confirm_password : {Secret}]
    \cup [email : {EmailA}, username : {Ann},
          password : {Hunter}, confirm_password : {Hunter}]
    \cup { EmptyDict,
           [email |-> EmailA, password |-> Secret, confirm_password |-> Secret],
           [email |-> EmailBad, username |-> Ann, password |-> Short,
            confirm_password |-> Secret],
           [email |-> EmailB, username |-> Bob, password |-> Short,
            confirm_password |-> Secret],
           [email |-> EmailB, username |-> Bob, password |-> Secret,
            confirm_password |-> Hunter] }

LoginBodies ==
    [email : {EmailA, EmailB, EmailAPadded}, password : {Secret, Hunter}]
    \cup { EmptyDict, [email |-> EmailA], [email |-> EmailBad, password |-> Secret],
           [email |-> EmailC, password |-> Secret],
           [email |-> EmailNobody, password |-> Secret] }

ForgotBodies ==
    [email : {EmailA, EmailC, EmailNobody, EmailBad}] \cup { EmptyDict }
ScoreBodies == [score : {-3, 2}, play_time : {10}] \cup { EmptyDict }
UnlockBodies ==
    [character_id : {1, 2}, cost : {10, 30}]
    \cup { EmptyDict, [character_id |-> 1], [character_id |-> 2, cost |-> -5] }
CoinsBodies == [coins : {-5, 7}] \cup { EmptyDict }


\* Python None where the other values are dictionaries or rows.
None == <<>>
\* Python None in an integer position (AUTOINCREMENT ids start at 1).
NoneId == 0

\* ------------------------------------------------------------ state -----
VARIABLES
    users,         \* table users: row id -> row (ids are 1..Len(users))
    game_history,  \* table game_history, in insertion order
    user_unlocks,  \* table user_unlocks, in insertion order
    session,       \* Flask session (signed cookie) of each client
    pc,            \* position of each handler thread
    req,           \* the request a thread is serving: kind, session, JSON body
    local,         \* the handler's local variables
    resp,          \* the JSON response once the handler has returned
    started,       \* number of requests accepted so far
    ledger,        \* history: per user, what the economy endpoints were asked
    watch,         \* history: per thread, the store as the request found it
    now,           \* the clock datetime.now() reads, in ticks
    call,          \* the last direct call of a Database method, and its return
    history,       \* history: when each reset token was issued, which tokens
                   \* have been used up or replaced since, the last reset
                   \* of each account, and the clients that became guests
    database,      \* web_app.database, the lazily created storage handle, and
                   \* whether the database file exists and is readable
    connection     \* the open transaction of the connection in use: the
                   \* tables as its uncommitted statements have left them
                   \* and have not logged in since

db == <<users, game_history, user_unlocks>>
web == <<session, pc, req, local, resp, ledger, watch>>
api == <<now, call, history, database, connection>>
vars == <<users, game_history, user_unlocks, session, pc, req, local, resp,
          started, ledger, watch, now, call, history, database, connection>>

UserIds == DOMAIN users

\* The handle exists (database = Database() has run) and so does the file.
Created == [handle |-> "Database", file |-> TRUE, deployment |-> FALSE]

\* No reset token has been issued yet.
NoHistory == [issued |-> [t \in Tokens |-> -1], spent |-> {}, replaced |-> {},
              last |-> {}, guests |-> {}]

\* ----------------------------------------------------- database.py ------
\* hashlib.sha256(password.encode()).hexdigest(): a digest that determines
\* the password (collisions of SHA-256 are not modelled).
hash_password(password) == [sha256 |-> password]

\* email TEXT UNIQUE NOT NULL, username TEXT UNIQUE NOT NULL
UniqueEmailOnly(email, username) ==
    \A id \in UserIds : users[id].email # email
UniqueUsernameOnly(email, username) ==
    \A id \in UserIds : users[id].username # username
users_unique(email, username) ==
    \A id \in UserIds : users[id].email # email /\ users[id].username # username

\* Database.create_user: the INSERT, or ValueError on sqlite3.IntegrityError.
create_user(email, username, password, verification_token) ==
    IF users_unique(email, username)
    THEN [raised |-> "none",
          users |-> Append(users,
                      [email |-> email, username |-> username,
                       password_hash |-> hash_password(password),
                       is_verified |-> FALSE,
                       verification_token |-> verification_token,
                       reset_token |-> NULL, reset_token_expires |-> NullTime,
                       coins |-> DefaultCoins]),
          user_id |-> Len(users) + 1,
          verification_token |-> verification_token]
    ELSE [raised |-> "ValueError", users |-> users, user_id |-> NoneId,
          verification_token |-> NULL]

VerifyByIdKeepsUnverified(user_id) ==
    [id \in UserIds |->
        IF id = user_id
        THEN [users[id] EXCEPT !.verification_token = NULL]
        ELSE users[id]]
\* Database.verify_user_by_id
verify_user_by_id(user_id) ==
    [id \in UserIds |->
        IF id = user_id
        THEN [users[id] EXCEPT !.is_verified = TRUE, !.verification_token = NULL]
        ELSE users[id]]

VerifyKeepsToken(token) ==
    LET hit == {id \in UserIds : users[id].verification_token = token}
    IN [users |-> [id \in UserIds |->
                     IF id \in hit
                     THEN [users[id] EXCEPT !.is_verified = TRUE]
                     ELSE users[id]],
        success |-> hit # {}]
\* Database.verify_user: UPDATE users SET is_verified = TRUE,
\* verification_token = NULL WHERE verification_token = ?; rowcount > 0.
verify_user(token) ==
    LET hit == {id \in UserIds : users[id].verification_token = token}
    IN [users |-> [id \in UserIds |->
                     IF id \in hit
                     THEN [users[id] EXCEPT !.is_verified = TRUE,
                                            !.verification_token = NULL]
                     ELSE users[id]],
        success |-> hit # {}]

\* ProductionDatabase.verify_user: the same UPDATE through execute_query,
\* which commits and returns cursor.rowcount; rows_affected > 0.
ProductionDatabase_verify_user(token) ==
    LET rows_affected ==
            Cardinality({id \in UserIds : users[id].verification_token = token})
    IN [users |-> [id \in UserIds |->
                     IF users[id].verification_token = token
                     THEN [users[id] EXCEPT !.is_verified = TRUE,
                                            !.verification_token = NULL]
                     ELSE users[id]],
        success |-> rows_affected > 0]
\* The row a SELECT ... fetchone() returns: the first match, or None.
FetchOne(ids) == IF ids = {} THEN None
                 ELSE LET id == CHOOSE i \in ids : \A j \in ids : i <= j
                      IN [id |-> id, username |-> users[id].username,
                          is_verified |-> users[id].is_verified,
                          coins |-> users[id].coins]

AuthNoVerifiedCheck(email, password, skip_password_check) ==
    LET user == FetchOne({id \in UserIds :
                    /\ users[id].email = email
                    /\ (skip_password_check
                        \/ users[id].password_hash = hash_password(password))})
    IN IF user # None
       THEN [id |-> user.id, username |-> user.username, email |-> email,
             coins |-> user.coins]
       ELSE None
AuthNoPasswordCheck(email, password, skip_password_check) ==
    LET user == FetchOne({id \in UserIds : users[id].email = email})
    IN IF user # None /\ user.is_verified
       THEN [id |-> user.id, username |-> user.username, email |-> email,
             coins |-> user.coins]
       ELSE None
\* Database.authenticate_user
authenticate_user(email, password, skip_password_check) ==
    LET user == FetchOne({id \in UserIds :
                    /\ users[id].email = email
                    /\ (skip_password_check
                        \/ users[id].password_hash = hash_password(password))})
    IN IF user # None /\ user.is_verified
       THEN [id |-> user.id, username |-> user.username, email |-> email,
             coins |-> user.coins]
       ELSE None

\* ProductionDatabase.authenticate_user: SELECT * ... AND is_verified = TRUE
ProductionDatabase_authenticate_user(email, password) ==
    LET ids == {id \in UserIds :
                    /\ users[id].email = email
                    /\ users[id].password_hash = hash_password(password)
                    /\ users[id].is_verified}
    IN IF ids = {} THEN None
       ELSE LET id == CHOOSE i \in ids : \A j \in ids : i <= j
            IN [id |-> id] @@ users[id]

\* Database.get_user_coins
get_user_coins(user_id) ==
    IF user_id \in UserIds THEN users[user_id].coins ELSE 0

UpdateAddsCoins(user_id, coins) ==
    [id \in UserIds |->
        IF id = user_id THEN [users[id] EXCEPT !.coins = @ + coins] ELSE users[id]]
\* Database.update_user_coins: UPDATE users SET coins = ? WHERE id = ?
update_user_coins(user_id, coins) ==
    [id \in UserIds |->
        IF id = user_id THEN [users[id] EXCEPT !.coins = coins] ELSE users[id]]

\* DEFAULT CURRENT_TIMESTAMP: the text 'YYYY-MM-DD HH:MM:SS' of the current
\* time, of fixed width, so it compares as the time does: it is modelled by
\* the tick of now (two inserts within one tick carry the same played_at).
CURRENT_TIMESTAMP == now

\* LIMIT 50 of get_user_history.
HistoryLimit == 50

\* LIMIT ?: the first limit rows, all of them when limit is negative.
Limit(rows, limit) ==
    IF limit < 0 \/ limit >= Len(rows) THEN rows ELSE SubSeq(rows, 1, limit)

\* Database.save_game_score: the INSERT and the credit, committed together.
save_game_score(user_id, score, play_time) ==
    IF user_id = NoneId
    THEN [game_history |-> game_history, users |-> users]
    ELSE [game_history |->
              Append(game_history,
                     [user_id |-> user_id, score |-> score,
                      play_time |-> play_time, played_at |-> CURRENT_TIMESTAMP]),
          users |->
              [id \in UserIds |->
                  IF id = user_id THEN [users[id] EXCEPT !.coins = @ + score]
                  ELSE users[id]]]

\* ProductionDatabase.save_game_score: the INSERT alone, whatever user_id is
\* (the column is nullable), here into the table of the database in use.
ProductionDatabase_save_game_score(user_id, score, play_time, character_used) ==
    Append(game_history,
           [user_id |-> user_id, score |-> score, play_time |-> play_time,
            played_at |-> CURRENT_TIMESTAMP, character_used |-> character_used])

\* The rows of user_id in game_history, by row id.
HistoryOf(user_id) ==
    {i \in DOMAIN game_history : game_history[i].user_id = user_id}

\* ORDER BY played_at DESC over the rows in ids: the latest played_at first;
\* among rows of the same second SQL leaves the order open, and the sort
\* yields them by ascending or by descending row id, as ties says.
by_played_at_desc(ids, ties) ==
    LET before(j, i) ==
            \/ game_history[j].played_at > game_history[i].played_at
            \/ /\ game_history[j].played_at = game_history[i].played_at
               /\ IF ties = "asc" THEN j < i ELSE j > i
    IN SortSeq(SelectSeq([i \in DOMAIN game_history |-> i],
                         LAMBDA i : i \in ids), before)

\* The row ids Database.get_user_history selects, in the order returned.
history_rows(user_id, ties) ==
    Limit(by_played_at_desc(HistoryOf(user_id), ties), HistoryLimit)

\* SELECT score, play_time, played_at of the row with id i.
HistoryRow(i) ==
    <<game_history[i].score, game_history[i].play_time, game_history[i].played_at>>

\* Database.get_user_history: SELECT score, play_time, played_at FROM
\* game_history WHERE user_id = ? ORDER BY played_at DESC LIMIT 50.
get_user_history(user_id, ties) ==
    LET rows == history_rows(user_id, ties)
    IN [k \in DOMAIN rows |-> HistoryRow(rows[k])]
\* JOIN game_history gh ON u.id = gh.user_id: the users with a record, and
\* MAX(gh.score) of each.
HasRecord(user_id) ==
    \E i \in DOMAIN game_history : game_history[i].user_id = user_id
best_score(user_id) ==
    LET scores == {game_history[i].score :
                     i \in {j \in DOMAIN game_history :
                               game_history[j].user_id = user_id}}
    IN CHOOSE m \in scores : \A x \in scores : x <= m

\* ORDER BY best_score DESC over one row per user (GROUP BY u.id): the orders
\* the sort may produce, SQL leaving the order of equal scores open.
ranked_users ==
    LET players == {u \in UserIds : HasRecord(u)}
        n == Cardinality(players)
    IN {r \in [1..n -> players] :
          /\ \A i, j \in 1..n : i # j => r[i] # r[j]
          /\ \A i, j \in 1..n : i < j => best_score(r[i]) >= best_score(r[j])}

LeaderboardFirstScore(limit, ranked) ==
    Limit([i \in DOMAIN ranked |->
              <<users[ranked[i]].username,
                game_history[CHOOSE j \in DOMAIN game_history :
                    /\ game_history[j].user_id = ranked[i]
                    /\ \A k \in 1..(j - 1) :
                          game_history[k].user_id # ranked[i]].score>>], limit)
\* Database.get_leaderboard: SELECT u.username, MAX(gh.score) ... GROUP BY
\* u.id, u.username ORDER BY best_score DESC LIMIT ?; cursor.fetchall().
get_leaderboard(limit, ranked) ==
    Limit([i \in DOMAIN ranked |->
              <<users[ranked[i]].username, best_score(ranked[i])>>], limit)

RankCountsBetter(user_id, ranked) ==
    IF \E i \in DOMAIN ranked : ranked[i] = user_id
    THEN 1 + Cardinality({i \in DOMAIN ranked :
                            best_score(ranked[i]) > best_score(user_id)})
    ELSE NoneId
\* Database.get_user_rank: ROW_NUMBER() OVER (ORDER BY best_score DESC) in
\* ranked_users, then SELECT rank ... WHERE id = ?; the rank, or None.
get_user_rank(user_id, ranked) ==
    IF \E i \in DOMAIN ranked : ranked[i] = user_id
    THEN CHOOSE i \in DOMAIN ranked : ranked[i] = user_id
    ELSE NoneId
\* str(character_id) of an integer, in decimal.
DigitChar(d) == CASE d = 0 -> "0" [] d = 1 -> "1" [] d = 2 -> "2" [] d = 3 -> "3"
                  [] d = 4 -> "4" [] d = 5 -> "5" [] d = 6 -> "6" [] d = 7 -> "7"
                  [] d = 8 -> "8" [] d = 9 -> "9"
RECURSIVE str_nat(_)
str_nat(n) == IF n < 10 THEN <<DigitChar(n)>>
              ELSE str_nat(n \div 10) \o <<DigitChar(n % 10)>>
str(n) == IF n < 0 THEN <<"-">> \o str_nat(-n) ELSE str_nat(n)

\* Database.unlock_character: INSERT OR IGNORE into the table init_database
\* creates, which declares no UNIQUE constraint for the insert to trip on.
unlock_character(user_id, character_id) ==
    Append(user_unlocks,
           [user_id |-> user_id, unlock_type |-> "character",
            unlock_name |-> str(character_id)])

\* int(text) of a decimal numeral, as get_user_unlocks applies it.
DigitValue(c) == CHOOSE d \in 0..9 : DigitChar(d) = c
RECURSIVE int_nat(_)
int_nat(text) ==
    IF Len(text) = 1 THEN DigitValue(text[1])
    ELSE 10 * int_nat(SubSeq(text, 1, Len(text) - 1)) + DigitValue(text[Len(text)])
int(text) == IF Head(text) = "-" THEN -int_nat(Tail(text)) ELSE int_nat(text)

\* Database.get_user_unlocks: SELECT unlock_name FROM user_unlocks WHERE
\* user_id = ? AND unlock_type = 'character', in row order; int() of each.
get_user_unlocks(user_id) ==
    LET rows == SelectSeq(user_unlocks,
                          LAMBDA r : r.user_id = user_id
                                     /\ r.unlock_type = "character")
    IN [k \in DOMAIN rows |-> int(rows[k].unlock_name)]

\* The text sqlite3's default adapter binds for a datetime, isoformat(" "):
\* the date and time to the second, then the fraction of the second, which
\* isoformat leaves out when it is zero.  Each part has a fixed width, so it
\* is modelled by its number: the whole hours, then the ticks past the hour.
adapt_datetime(t) ==
    IF t % Hour = 0 THEN <<t \div Hour>> ELSE <<t \div Hour, t % Hour>>

\* SQLite's a > b on two TEXT values (BINARY collation): the first part that
\* differs decides, and a text is greater than each of its proper prefixes.
RECURSIVE text_gt(_, _)
text_gt(a, b) ==
    IF a = <<>> THEN FALSE
    ELSE IF b = <<>> THEN TRUE
    ELSE IF Head(a) # Head(b) THEN Head(a) > Head(b)
    ELSE text_gt(Tail(a), Tail(b))

\* generate_token(): 32 random characters.  Two accounts holding the same
\* reset token at once has probability 62^-32 and is not modelled; a value
\* that is no longer held by another account can be drawn again.
FreshTokens(email) ==
    {t \in Tokens : \A id \in UserIds :
                        users[id].reset_token = t => users[id].email = email}

RequestKeepsOutstanding(email, reset_token) ==
    LET expires == adapt_datetime(now + Hour)
        hit == {id \in UserIds : users[id].email = email /\ users[id].is_verified}
    IN [users |-> [id \in UserIds |->
                     IF id \in hit /\ users[id].reset_token = NULL
                     THEN [users[id] EXCEPT !.reset_token = reset_token,
                                            !.reset_token_expires = expires]
                     ELSE users[id]],
        reset_token |-> IF hit # {} THEN reset_token ELSE NULL]
RequestIgnoresVerified(email, reset_token) ==
    LET expires == adapt_datetime(now + Hour)
        hit == {id \in UserIds : users[id].email = email}
    IN [users |-> [id \in UserIds |->
                     IF id \in hit
                     THEN [users[id] EXCEPT !.reset_token = reset_token,
                                            !.reset_token_expires = expires]
                     ELSE users[id]],
        reset_token |-> IF hit # {} THEN reset_token ELSE NULL]
\* Database.request_password_reset: UPDATE users SET reset_token = ?,
\* reset_token_expires = ? WHERE email = ? AND is_verified = TRUE; the token
\* if a row was updated, else None (NULL in this text position).
request_password_reset(email, reset_token) ==
    LET expires == adapt_datetime(now + Hour)
        hit == {id \in UserIds : users[id].email = email /\ users[id].is_verified}
    IN [users |-> [id \in UserIds |->
                     IF id \in hit
                     THEN [users[id] EXCEPT !.reset_token = reset_token,
                                            !.reset_token_expires = expires]
                     ELSE users[id]],
        reset_token |-> IF hit # {} THEN reset_token ELSE NULL]

ResetAcceptsAtExpiry(token, new_password) ==
    LET hit == {id \in UserIds :
                  /\ users[id].reset_token = token
                  /\ users[id].reset_token_expires # NullTime
                  /\ ~text_gt(adapt_datetime(now), users[id].reset_token_expires)}
    IN [users |-> [id \in UserIds |->
                     IF id \in hit
                     THEN [users[id] EXCEPT
                             !.password_hash = hash_password(new_password),
                             !.reset_token = NULL,
                             !.reset_token_expires = NullTime]
                     ELSE users[id]],
        success |-> hit # {}]
ResetKeepsToken(token, new_password) ==
    LET hit == {id \in UserIds :
                  /\ users[id].reset_token = token
                  /\ users[id].reset_token_expires # NullTime
                  /\ text_gt(users[id].reset_token_expires, adapt_datetime(now))}
    IN [users |-> [id \in UserIds |->
                     IF id \in hit
                     THEN [users[id] EXCEPT
                             !.password_hash = hash_password(new_password)]
                     ELSE users[id]],
        success |-> hit # {}]
ResetEveryAccount(token, new_password) ==
    LET hit == {id \in UserIds :
                  /\ users[id].reset_token = token
                  /\ users[id].reset_token_expires # NullTime
                  /\ text_gt(users[id].reset_token_expires, adapt_datetime(now))}
    IN [users |-> [id \in UserIds |->
                     IF hit # {}
                     THEN [users[id] EXCEPT
                             !.password_hash = hash_password(new_password),
                             !.reset_token = NULL,
                             !.reset_token_expires = NullTime]
                     ELSE users[id]],
        success |-> hit # {}]
\* Database.reset_password: UPDATE users SET password_hash = ?, reset_token =
\* NULL, reset_token_expires = NULL WHERE reset_token = ? AND
\* reset_token_expires > ?, with datetime.now(); cursor.rowcount > 0.
reset_password(token, new_password) ==
    LET hit == {id \in UserIds :
                  /\ users[id].reset_token = token
                  /\ users[id].reset_token_expires # NullTime
                  /\ text_gt(users[id].reset_token_expires, adapt_datetime(now))}
    IN [users |-> [id \in UserIds |->
                     IF id \in hit
                     THEN [users[id] EXCEPT
                             !.password_hash = hash_password(new_password),
                             !.reset_token = NULL,
                             !.reset_token_expires = NullTime]
                     ELSE users[id]],
        success |-> hit # {}]

\* ------------------------------------------------------- web_app.py -----
\* The session is Flask's signed-cookie session: each request works on the
\* copy its cookie carries, and the cookie is rewritten only when a handler
\* assigns or clears a top-level key (login, guest_login, logout).  The
\* nested writes session['user']['coins'] = ... change the request's copy
\* alone, so they are not part of the stored session.

\* Nothing has been asked of the economy endpoints for a user yet.
NoLedger == [scores |-> 0, costs |-> 0, kinds |-> {}, bought |-> {}]

Idle == [p \in Procs |-> EmptyDict]
Quiet(p) == \A q \in Procs \ {p} : pc[q] \in {"idle", "done"}
Quiescent == \A p \in Procs : pc[p] \in {"idle", "done"}

\* A free thread takes the next request of client s and flask dispatches it
\* to the view (the threads are interchangeable: the first free one takes it).
Take(p, kind, s, data) ==
    /\ pc[p] = "idle"
    /\ \A q \in Procs : q < p => pc[q] # "idle"
    /\ started < MaxRequests
    /\ started' = started + 1
    /\ req' = [req EXCEPT ![p] = [kind |-> kind, sess |-> s, data |-> data]]
    /\ watch' = [q \in Procs |->
                   IF q = p
                   THEN [alone |-> Quiet(p),
                         coins |-> IF "user" \in DOMAIN session[s]
                                   THEN get_user_coins(session[s].user.id) ELSE 0,
                         games |-> game_history,
                         guest |-> s \in history.guests]
                   ELSE [watch[q] EXCEPT !.alone = FALSE]]
    /\ UNCHANGED <<now, call>>

\* The request of a view that leaves the storage handle as it is.
Accept(p, kind, s, data) ==
    /\ Take(p, kind, s, data)
    /\ UNCHANGED <<database, connection>>

\* The handler returns jsonify(body).
Reply(p, body) ==
    /\ pc' = [pc EXCEPT ![p] = "done"]
    /\ resp' = [resp EXCEPT ![p] = body]

Fail(message) == [success |-> FALSE, message |-> message]
Ok(message) == [success |-> TRUE, message |-> message]

SignupEmailCheckLast(p) ==
    \E s \in Sessions, data \in SignupBodies, token \in Tokens :
      LET email == strip(Get(data, "email", EmptyStr))
          username == strip(Get(data, "username", EmptyStr))
          password == Get(data, "password", EmptyStr)
          confirm_password == Get(data, "confirm_password", EmptyStr)
          created == create_user(email, username, password, token)
      IN
      /\ Accept(p, "signup", s, data)
      /\ UNCHANGED <<game_history, user_unlocks, session, history>>
      /\ IF EmptyStr \in {email, username, password, confirm_password}
         THEN /\ Reply(p, Fail("Please fill in all fields"))
              /\ UNCHANGED <<users, local, ledger>>
         ELSE IF Len(password) < MinPasswordLen
         THEN /\ Reply(p, Fail("Password must be at least 6 characters"))
              /\ UNCHANGED <<users, local, ledger>>
         ELSE IF password # confirm_password
         THEN /\ Reply(p, Fail("Passwords do not match"))
              /\ UNCHANGED <<users, local, ledger>>
         ELSE IF ~is_valid_email(email)
         THEN /\ Reply(p, Fail("Please enter a valid email address"))
              /\ UNCHANGED <<users, local, ledger>>
         ELSE IF created.raised = "ValueError"
         THEN /\ Reply(p, Fail("Email or username already exists"))
              /\ UNCHANGED <<users, local, ledger>>
         ELSE /\ users' = created.users
              /\ ledger' = Append(ledger, [scores |-> 0, costs |-> 0,
                                           kinds |-> {}, bought |-> {}])
              /\ IF created.user_id # NoneId
                 THEN /\ pc' = [pc EXCEPT ![p] = "verify_user_by_id"]
                      /\ local' = [local EXCEPT ![p] = [user_id |-> created.user_id]]
                      /\ UNCHANGED resp
                 ELSE /\ Reply(p, Fail("Failed to create account"))
                      /\ UNCHANGED local
\* signup(), up to and including create_user.
Signup(p) ==
    \E s \in Sessions, data \in SignupBodies, token \in Tokens :
      LET email == strip(Get(data, "email", EmptyStr))
          username == strip(Get(data, "username", EmptyStr))
          password == Get(data, "password", EmptyStr)
          confirm_password == Get(data, "confirm_password", EmptyStr)
          created == create_user(email, username, password, token)
      IN
      /\ Accept(p, "signup", s, data)
      /\ UNCHANGED <<game_history, user_unlocks, session, history>>
      /\ IF EmptyStr \in {email, username, password, confirm_password}
         THEN /\ Reply(p, Fail("Please fill in all fields"))
              /\ UNCHANGED <<users, local, ledger>>
         ELSE IF ~is_valid_email(email)
         THEN /\ Reply(p, Fail("Please enter a valid email address"))
              /\ UNCHANGED <<users, local, ledger>>
         ELSE IF Len(password) < MinPasswordLen
         THEN /\ Reply(p, Fail("Password must be at least 6 characters"))
              /\ UNCHANGED <<users, local, ledger>>
         ELSE IF password # confirm_password
         THEN /\ Reply(p, Fail("Passwords do not match"))
              /\ UNCHANGED <<users, local, ledger>>
         ELSE IF created.raised = "ValueError"
         THEN /\ Reply(p, Fail("Email or username already exists"))
              /\ UNCHANGED <<users, local, ledger>>
         ELSE /\ users' = created.users
              /\ ledger' = Append(ledger, [scores |-> 0, costs |-> 0,
                                           kinds |-> {}, bought |-> {}])
              /\ IF created.user_id # NoneId
                 THEN /\ pc' = [pc EXCEPT ![p] = "verify_user_by_id"]
                      /\ local' = [local EXCEPT ![p] = [user_id |-> created.user_id]]
                      /\ UNCHANGED resp
                 ELSE /\ Reply(p, Fail("Failed to create account"))
                      /\ UNCHANGED local

\* signup(), the automatic verification and the success response.
SignupVerify(p) ==
    /\ pc[p] = "verify_user_by_id"
    /\ users' = verify_user_by_id(local[p].user_id)
    /\ Reply(p, Ok("Account created successfully! You can now sign in."))
    /\ UNCHANGED <<game_history, user_unlocks, session, req, local, started,
                   ledger, watch, api>>

LoginTellsUnverified(p) ==
    \E s \in Sessions, data \in LoginBodies :
      LET email == strip(Get(data, "email", EmptyStr))
          password == Get(data, "password", EmptyStr)
          user == authenticate_user(email, password, FALSE)
      IN
      /\ Accept(p, "login", s, data)
      /\ UNCHANGED <<db, local, ledger>>
      /\ IF email = EmptyStr \/ password = EmptyStr
         THEN /\ Reply(p, Fail("Please fill in all fields"))
              /\ UNCHANGED <<session, history>>
         ELSE IF ~is_valid_email(email)
         THEN /\ Reply(p, Fail("Please enter a valid email address"))
              /\ UNCHANGED <<session, history>>
         ELSE IF user # None
         THEN /\ session' = [session EXCEPT ![s] =
                                ("user" :> user) @@ session[s]]
              /\ history' = [history EXCEPT !.guests = @ \ {s}]
              /\ Reply(p, [success |-> TRUE, message |-> "Login successful!",
                           user |-> user])
         ELSE /\ Reply(p, IF authenticate_user(email, password, TRUE) = None
                          /\ \E id \in UserIds : users[id].email = email
                                                  /\ ~users[id].is_verified
                       THEN Fail("Please verify your email")
                       ELSE Fail("Invalid email or password"))
              /\ UNCHANGED <<session, history>>
\* A login() that drops the session when authentication fails.
LoginFailureClears(p) ==
    \E s \in Sessions, data \in LoginBodies :
      LET email == strip(Get(data, "email", EmptyStr))
          password == Get(data, "password", EmptyStr)
          user == authenticate_user(email, password, FALSE)
      IN
      /\ Accept(p, "login", s, data)
      /\ UNCHANGED <<db, local, ledger>>
      /\ IF email = EmptyStr \/ password = EmptyStr
         THEN /\ Reply(p, Fail("Please fill in all fields"))
              /\ UNCHANGED <<session, history>>
         ELSE IF ~is_valid_email(email)
         THEN /\ Reply(p, Fail("Please enter a valid email address"))
              /\ UNCHANGED <<session, history>>
         ELSE IF user # None
         THEN /\ session' = [session EXCEPT ![s] =
                                ("user" :> user) @@ session[s]]
              /\ history' = [history EXCEPT !.guests = @ \ {s}]
              /\ Reply(p, [success |-> TRUE, message |-> "Login successful!",
                           user |-> user])
         ELSE /\ Reply(p, Fail("Invalid email or password"))
              /\ session' = [session EXCEPT ![s] = EmptyDict]
              /\ UNCHANGED history

\* login()
Login(p) ==
    \E s \in Sessions, data \in LoginBodies :
      LET email == strip(Get(data, "email", EmptyStr))
          password == Get(data, "password", EmptyStr)
          user == authenticate_user(email, password, FALSE)
      IN
      /\ Accept(p, "login", s, data)
      /\ UNCHANGED <<db, local, ledger>>
      /\ IF email = EmptyStr \/ password = EmptyStr
         THEN /\ Reply(p, Fail("Please fill in all fields"))
              /\ UNCHANGED <<session, history>>
         ELSE IF ~is_valid_email(email)
         THEN /\ Reply(p, Fail("Please enter a valid email address"))
              /\ UNCHANGED <<session, history>>
         ELSE IF user # None
         THEN /\ session' = [session EXCEPT ![s] =
                                ("user" :> user) @@ session[s]]
              /\ history' = [history EXCEPT !.guests = @ \ {s}]
              /\ Reply(p, [success |-> TRUE, message |-> "Login successful!",
                           user |-> user])
         ELSE /\ Reply(p, Fail("Invalid email or password"))
              /\ UNCHANGED <<session, history>>

\* The reset tokens the accounts of email hold.
HeldBy(email) ==
    {users[id].reset_token : id \in {i \in UserIds : users[i].email = email}}
        \ {NULL}

\* The record of the tokens once reset_token has been issued for email.
Reissued(email, reset_token) ==
    [issued |-> [history.issued EXCEPT ![reset_token] = now],
     spent |-> history.spent \ {reset_token},
     replaced |->
         {e \in history.replaced : e.old # reset_token /\ e.by # reset_token}
         \cup {[old |-> t, by |-> reset_token] :
                  t \in HeldBy(email) \ {reset_token}},
     last |-> history.last, guests |-> history.guests]

\* forgot_password(): request_password_reset, then the email, which
\* send_password_reset_email reports as sent (True) or not (False).
ForgotPassword(p) ==
    \E s \in Sessions, data \in ForgotBodies, email_sent \in BOOLEAN :
      LET email == strip(Get(data, "email", EmptyStr)) IN
      /\ Accept(p, "forgot_password", s, data)
      /\ UNCHANGED <<game_history, user_unlocks, session, local, ledger>>
      /\ IF email = EmptyStr
         THEN /\ Reply(p, Fail("Please enter your email address"))
              /\ UNCHANGED <<users, history>>
         ELSE IF ~is_valid_email(email)
         THEN /\ Reply(p, Fail("Please enter a valid email address"))
              /\ UNCHANGED <<users, history>>
         ELSE \E token \in FreshTokens(email) :
                LET r == request_password_reset(email, token) IN
                /\ users' = r.users
                /\ IF r.reset_token # NULL
                   THEN /\ history' = Reissued(email, token)
                        /\ IF email_sent
                           THEN Reply(p, Ok("Password reset email sent!"))
                           ELSE Reply(p, Fail("Failed to send reset email. Please check server logs for details."))
                   ELSE /\ history' = history
                        /\ Reply(p, Fail("Email not found or not verified"))

\* guest_login()
GuestLogin(p) ==
    \E s \in Sessions :
      /\ Accept(p, "guest_login", s, EmptyDict)
      /\ session' = [session EXCEPT ![s] = ("guest" :> TRUE) @@ session[s]]
      /\ Reply(p, Ok("Playing as guest"))
      /\ history' = [history EXCEPT !.guests = @ \cup {s}]
      /\ UNCHANGED <<db, local, ledger>>

LogoutKeepsUser(p) ==
    \E s \in Sessions :
      /\ Accept(p, "logout", s, EmptyDict)
      /\ session' = [session EXCEPT ![s] =
                        [k \in DOMAIN session[s] \ {"guest"} |-> session[s][k]]]
      /\ Reply(p, Ok("Logged out successfully"))
      /\ UNCHANGED <<db, local, ledger, history>>
\* logout()
Logout(p) ==
    \E s \in Sessions :
      /\ Accept(p, "logout", s, EmptyDict)
      /\ session' = [session EXCEPT ![s] = EmptyDict]
      /\ Reply(p, Ok("Logged out successfully"))
      /\ UNCHANGED <<db, local, ledger, history>>

\* What the economy endpoints were asked on behalf of user_id.
Asked(user_id, kind, score) ==
    [ledger EXCEPT ![user_id].kinds = @ \cup {kind}, ![user_id].scores = @ + score]
Bought(user_id, character_id, cost) ==
    [ledger EXCEPT ![user_id].bought = @ \cup {<<character_id, cost>>},
                   ![user_id].costs = @ + cost]

\* new_coins = current_coins + score
NewCoins(current_coins, score) == current_coins + score

\* save_score(), up to and including get_user_coins.
SaveScore(p) ==
    \E s \in Sessions, data \in ScoreBodies :
      LET score == Get(data, "score", 0)
          play_time == Get(data, "play_time", 0)
      IN
      /\ Accept(p, "save_score", s, data)
      /\ UNCHANGED <<db, session, history>>
      /\ IF "user" \notin DOMAIN session[s]
         THEN /\ Reply(p, Ok("Score not saved for guest"))
              /\ UNCHANGED <<local, ledger>>
         ELSE LET user_id == session[s].user.id
                  current_coins == get_user_coins(user_id)
              IN /\ local' = [local EXCEPT ![p] =
                        [user_id |-> user_id, score |-> score,
                         play_time |-> play_time,
                         current_coins |-> current_coins,
                         new_coins |-> NewCoins(current_coins, score)]]
                 /\ pc' = [pc EXCEPT ![p] = "save_game_score"]
                 /\ ledger' = Asked(user_id, "save_score", score)
                 /\ UNCHANGED resp

\* save_score(), the call of save_game_score.
SaveScoreInsert(p) ==
    /\ pc[p] = "save_game_score"
    /\ LET saved == save_game_score(local[p].user_id, local[p].score,
                                    local[p].play_time)
       IN /\ game_history' = saved.game_history
          /\ users' = saved.users
    /\ pc' = [pc EXCEPT ![p] = "update_user_coins"]
    /\ UNCHANGED <<user_unlocks, session, req, local, resp, started, ledger,
                   watch, api>>

\* save_score(), the call of update_user_coins and the response.
SaveScoreUpdate(p) ==
    /\ pc[p] = "update_user_coins"
    /\ users' = update_user_coins(local[p].user_id, local[p].new_coins)
    /\ Reply(p, [success |-> TRUE, coins |-> local[p].new_coins])
    /\ UNCHANGED <<game_history, user_unlocks, session, req, local, started,
                   ledger, watch, api>>

InvertedFundsCheck(current_coins, cost) == current_coins > cost
\* if current_coins < cost: 'Not enough coins'
NotEnoughCoins(current_coins, cost) == current_coins < cost

\* unlock_character(), up to and including the funds check.
UnlockCharacter(p) ==
    \E s \in Sessions, data \in UnlockBodies :
      LET cost == Get(data, "cost", 0) IN
      /\ Accept(p, "unlock_character", s, data)
      /\ UNCHANGED <<db, session, history>>
      /\ IF "user" \notin DOMAIN session[s]
         THEN /\ Reply(p, Fail("Not logged in"))
              /\ UNCHANGED <<local, ledger>>
         ELSE IF "character_id" \notin DOMAIN data
         THEN /\ Reply(p, Fail("Character ID required"))
              /\ UNCHANGED <<local, ledger>>
         ELSE LET user_id == session[s].user.id
                  current_coins == get_user_coins(user_id)
              IN IF NotEnoughCoins(current_coins, cost)
                 THEN /\ Reply(p, Fail("Not enough coins"))
                      /\ ledger' = Asked(user_id, "unlock_character", 0)
                      /\ UNCHANGED local
                 ELSE /\ local' = [local EXCEPT ![p] =
                            [user_id |-> user_id,
                             character_id |-> data.character_id,
                             cost |-> cost,
                             current_coins |-> current_coins]]
                      /\ pc' = [pc EXCEPT ![p] = "unlock_update_coins"]
                      /\ ledger' = Asked(user_id, "unlock_character", 0)
                      /\ UNCHANGED resp

\* unlock_character(), the debit: update_user_coins(new_coins).
UnlockDebit(p) ==
    /\ pc[p] = "unlock_update_coins"
    /\ LET new_coins == local[p].current_coins - local[p].cost
       IN /\ users' = update_user_coins(local[p].user_id, new_coins)
          /\ local' = [local EXCEPT ![p] = ("new_coins" :> new_coins) @@ @]
    /\ pc' = [pc EXCEPT ![p] = "unlock_character"]
    /\ UNCHANGED <<game_history, user_unlocks, session, req, resp, started,
                   ledger, watch, api>>

\* unlock_character(), the insert into user_unlocks and the response.
UnlockInsert(p) ==
    /\ pc[p] = "unlock_character"
    /\ user_unlocks' = unlock_character(local[p].user_id, local[p].character_id)
    /\ Reply(p, [success |-> TRUE, coins |-> local[p].new_coins])
    /\ ledger' = Bought(local[p].user_id, local[p].character_id, local[p].cost)
    /\ UNCHANGED <<users, game_history, session, req, local, started, watch, api>>

\* unlock_character(), update_user_coins raising (the database is locked,
\* the disk is full): nothing is written, the except branch answers.
UnlockDebitFails(p) ==
    /\ pc[p] = "unlock_update_coins"
    /\ Reply(p, Fail("Failed to unlock character"))
    /\ UNCHANGED <<db, session, req, local, started, ledger, watch, api>>

\* unlock_character(), Database.unlock_character raising after the debit
\* has been committed: the except branch answers.
UnlockInsertFails(p) ==
    /\ pc[p] = "unlock_character"
    /\ Reply(p, Fail("Failed to unlock character"))
    /\ UNCHANGED <<db, session, req, local, started, ledger, watch, api>>

\* update_coins()
UpdateCoins(p) ==
    \E s \in Sessions, data \in CoinsBodies :
      LET coins == Get(data, "coins", 0) IN
      /\ Accept(p, "update_coins", s, data)
      /\ UNCHANGED <<game_history, user_unlocks, session, local, history>>
      /\ IF "user" \notin DOMAIN session[s]
         THEN /\ Reply(p, Fail("Not logged in"))
              /\ UNCHANGED <<users, ledger>>
         ELSE /\ users' = update_user_coins(session[s].user.id, coins)
              /\ ledger' = Asked(session[s].user.id, "update_coins", 0)
              /\ Reply(p, [success |-> TRUE])

\* leaderboard(): get_leaderboard() and get_user_rank, one query each.
Leaderboard(p) ==
    \E s \in Sessions, ranked \in ranked_users, reranked \in ranked_users :
      /\ Accept(p, "leaderboard", s, EmptyDict)
      /\ UNCHANGED <<db, session, local, ledger, history>>
      /\ IF "user" \notin DOMAIN session[s]
         THEN Reply(p, Fail("Login required"))
         ELSE Reply(p, [success |-> TRUE,
                        leaderboard |-> get_leaderboard(DefaultLimit, ranked),
                        user_rank |-> get_user_rank(session[s].user.id,
                                                    reranked)])

\* history()
History(p) ==
    \E s \in Sessions, ties \in {"asc", "desc"} :
      /\ Accept(p, "history", s, EmptyDict)
      /\ UNCHANGED <<db, session, local, ledger, history>>
      /\ IF "user" \notin DOMAIN session[s]
         THEN Reply(p, Fail("Login required"))
         ELSE LET user_history_raw == get_user_history(session[s].user.id, ties)
              IN Reply(p, [success |-> TRUE,
                           history |-> [k \in DOMAIN user_history_raw |->
                              [score |-> user_history_raw[k][1],
                               play_time |-> user_history_raw[k][2],
                               played_at |-> user_history_raw[k][3]]]])

\* get_unlocks()
GetUnlocks(p) ==
    \E s \in Sessions :
      /\ Accept(p, "get_unlocks", s, EmptyDict)
      /\ UNCHANGED <<db, session, local, ledger, history>>
      /\ IF "user" \notin DOMAIN session[s]
         THEN Reply(p, Fail("Not logged in"))
         ELSE Reply(p, [success |-> TRUE,
                        unlocked_characters |->
                            get_user_unlocks(session[s].user.id)])

GetCoinsUngated(p) ==
    \E s \in Sessions :
      /\ Accept(p, "get_coins", s, EmptyDict)
      /\ UNCHANGED <<db, session, local, ledger, history>>
      /\ Reply(p, [success |-> TRUE,
                   coins |-> get_user_coins(
                       IF "user" \in DOMAIN session[s]
                       THEN session[s].user.id ELSE NoneId)])
\* get_coins()
GetCoins(p) ==
    \E s \in Sessions :
      /\ Accept(p, "get_coins", s, EmptyDict)
      /\ UNCHANGED <<db, session, local, ledger, history>>
      /\ IF "user" \notin DOMAIN session[s]
         THEN Reply(p, Fail("Not logged in"))
         ELSE Reply(p, [success |-> TRUE,
                        coins |-> get_user_coins(session[s].user.id)])

\* The response has been sent; the thread is free for the next request.
Return(p) ==
    /\ pc[p] = "done"
    /\ pc' = [pc EXCEPT ![p] = "idle"]
    /\ req' = [req EXCEPT ![p] = EmptyDict]
    /\ local' = [local EXCEPT ![p] = EmptyDict]
    /\ resp' = [resp EXCEPT ![p] = EmptyDict]
    /\ watch' = [watch EXCEPT ![p] = [alone |-> FALSE, coins |-> 0,
                                      games |-> <<>>, guest |-> FALSE]]
    /\ UNCHANGED <<db, session, started, ledger, api>>

\* get_database(): the handle is created on first use. Database() runs
\* init_database(), which creates the file and the tables, or raises; when it
\* raises, the assignment to the global does not happen.
get_database(raises) ==
    IF database.handle # NULL
    THEN [raised |-> FALSE, database |-> database]
    ELSE IF raises
    THEN [raised |-> TRUE, database |-> database]
    ELSE [raised |-> FALSE,
          database |-> [database EXCEPT !.handle = "Database", !.file = TRUE]]

\* What a view answers when an exception leaves it: Flask's error page.
InternalServerError == [http |-> 500]

\* health_check() without its try/except: a failure of the storage leaves the
\* view as an exception.
HealthUnguarded(p) ==
    \E s \in Sessions, opens \in BOOLEAN, inits \in BOOLEAN :
      LET got == get_database(~opens)
          db_path == got.database.file
          health_status == [status |-> "ok", service |-> "flappy-bird",
                            timestamp |-> now, version |-> "1.0.0",
                            platform |-> IF database.deployment
                                         THEN "production" ELSE "development",
                            http |-> 200]
      IN
      /\ Take(p, "health", s, EmptyDict)
      /\ UNCHANGED <<db, session, ledger, history, connection>>
      /\ IF got.raised
         THEN /\ database' = got.database
              /\ local' = [local EXCEPT ![p] = [e |-> "OperationalError"]]
              /\ Reply(p, InternalServerError)
         ELSE IF db_path
         THEN /\ database' = got.database
              /\ UNCHANGED local
              /\ Reply(p, health_status @@ [database |-> "connected"])
         ELSE IF inits
         THEN /\ database' = [got.database EXCEPT !.file = TRUE]
              /\ UNCHANGED local
              /\ Reply(p, health_status @@ [database |-> "connected"])
         ELSE /\ database' = got.database
              /\ local' = [local EXCEPT ![p] = [e |-> "OperationalError"]]
              /\ Reply(p, InternalServerError)

\* health_check(): GET /health. The storage is obtained and, when its file is
\* missing or unreadable, initialized; either step may raise, and the handler
\* catches whatever is raised. The status code is always 200.
Health(p) ==
    \E s \in Sessions, opens \in BOOLEAN, inits \in BOOLEAN :
      LET got == get_database(~opens)
          db_path == got.database.file
          health_status == [status |-> "ok", service |-> "flappy-bird",
                            timestamp |-> now, version |-> "1.0.0",
                            platform |-> IF database.deployment
                                         THEN "production" ELSE "development",
                            http |-> 200]
          degraded == [status |-> "degraded", database |-> "error",
                       error |-> "OperationalError"] @@ health_status
      IN
      /\ Take(p, "health", s, EmptyDict)
      /\ UNCHANGED <<db, session, ledger, history, connection>>
      /\ IF got.raised
         THEN /\ database' = got.database
              /\ local' = [local EXCEPT ![p] = [e |-> "OperationalError"]]
              /\ Reply(p, degraded)
         ELSE IF db_path
         THEN /\ database' = got.database
              /\ UNCHANGED local
              /\ Reply(p, health_status @@ [database |-> "connected"])
         ELSE IF inits
         THEN /\ database' = [got.database EXCEPT !.file = TRUE]
              /\ UNCHANGED local
              /\ Reply(p, health_status @@ [database |-> "connected"])
         ELSE /\ database' = got.database
              /\ local' = [local EXCEPT ![p] = [e |-> "OperationalError"]]
              /\ Reply(p, degraded)

\* The database file is removed or made unreadable from outside the program:
\* what os.path.exists and os.access test for.
RemoveFile ==
    /\ database.file
    /\ database' = [database EXCEPT !.file = FALSE]
    /\ UNCHANGED <<db, web, started, now, call, history, connection>>

\* ------------------------------------------- direct Database calls -----
\* The methods of Database called directly, one call at a time: each is one
\* statement and one commit.

\* The call, its arguments and what it returned.
Made(op, args, result) ==
    /\ started < MaxRequests
    /\ started' = started + 1
    /\ call' = [op |-> op, n |-> started + 1, at |-> now, result |-> result] @@ args

ResetEmails == {EmailA, EmailB, EmailC, EmailBad}
NewPasswords == {Secret, Hunter}

\* db.request_password_reset(email)
RequestPasswordReset ==
    \E email \in ResetEmails : \E reset_token \in FreshTokens(email) :
      LET r == request_password_reset(email, reset_token) IN
      /\ Made("request_password_reset", [email |-> email], r.reset_token)
      /\ users' = r.users
      /\ history' = IF r.reset_token = NULL THEN history
                    ELSE Reissued(email, reset_token)
      /\ UNCHANGED <<game_history, user_unlocks, web, now, database, connection>>

\* db.reset_password(token, new_password)
ResetPassword ==
    \E token \in Tokens, new_password \in NewPasswords :
      LET r == reset_password(token, new_password) IN
      /\ Made("reset_password",
              [token |-> token, new_password |-> new_password], r.success)
      /\ users' = r.users
      /\ history' =
            LET hit == {id \in UserIds : r.users[id] # users[id]} IN
            [history EXCEPT
               !.spent = IF r.success THEN @ \cup {token} ELSE @,
               !.last = {e \in @ : e.id \notin hit} \cup
                        {[id |-> id, token |-> token,
                          new_password |-> new_password] : id \in hit}]
      /\ UNCHANGED <<game_history, user_unlocks, web, now, database, connection>>

\* db.create_user(email, username, password)
CreateUser ==
    \E email \in {EmailA, EmailB}, username \in {Ann, Bob}, token \in Tokens :
      LET created == create_user(email, username, Secret, token) IN
      /\ Made("create_user", [email |-> email, username |-> username],
              created.raised)
      /\ users' = created.users
      /\ ledger' = IF created.raised = "none" THEN Append(ledger, NoLedger)
                   ELSE ledger
      /\ UNCHANGED <<game_history, user_unlocks, session, pc, req, local, resp,
                     watch, now, history, database, connection>>

\* db.verify_user(token), db being a Database or a ProductionDatabase
VerifyUser ==
    \E token \in Tokens, class \in {"Database", "ProductionDatabase"} :
      LET r == IF class = "Database" THEN verify_user(token)
               ELSE ProductionDatabase_verify_user(token)
      IN
      /\ Made("verify_user",
              [token |-> token, class |-> class,
               again |-> /\ call # EmptyDict /\ call.op = "verify_user"
                         /\ call.token = token /\ call.result],
              r.success)
      /\ users' = r.users
      /\ UNCHANGED <<game_history, user_unlocks, web, now, database, connection, history>>
ScoreValues == {10, 15, 20}
\* user_id: None, Ann's or Bob's
ScoreUserIds == {NoneId, 1, 2} \cap ({NoneId} \cup UserIds)

\* db.save_game_score(user_id, score, play_time)
SaveGameScore ==
    \E user_id \in ScoreUserIds, score \in ScoreValues :
      LET saved == save_game_score(user_id, score, 10) IN
      /\ Made("save_game_score",
              [user_id |-> user_id, score |-> score, class |-> "Database"], None)
      /\ game_history' = saved.game_history
      /\ users' = saved.users
      /\ UNCHANGED <<user_unlocks, web, now, database, connection, history>>

\* db.save_game_score(user_id, score, play_time) of a ProductionDatabase
ProductionSaveGameScore ==
    \E user_id \in ScoreUserIds :
      /\ Made("save_game_score",
              [user_id |-> user_id, score |-> 10,
               class |-> "ProductionDatabase"], None)
      /\ game_history' = ProductionDatabase_save_game_score(user_id, 10, 10, 0)
      /\ UNCHANGED <<users, user_unlocks, web, now, database, connection, history>>
\* db.get_leaderboard(limit), limit=100 when left out
GetLeaderboard ==
    \E limit \in {0, 1, 2, DefaultLimit}, ranked \in ranked_users :
      /\ call' = [op |-> "get_leaderboard", n |-> started, at |-> now,
                  limit |-> limit, result |-> get_leaderboard(limit, ranked)]
      /\ UNCHANGED <<db, web, started, now, database, connection, history>>

\* db.get_user_rank(user_id); ranks holds what the same evaluation of
\* ranked_users gives every user.
GetUserRank ==
    \E user_id \in UserIds, ranked \in ranked_users :
      /\ call' = [op |-> "get_user_rank", n |-> started, at |-> now,
                  user_id |-> user_id,
                  ranks |-> [u \in UserIds |-> get_user_rank(u, ranked)],
                  result |-> get_user_rank(user_id, ranked)]
      /\ UNCHANGED <<db, web, started, now, database, connection, history>>
\* db.get_user_history(user_id); rows holds the row ids behind the result.
GetUserHistory ==
    \E user_id \in UserIds, ties \in {"asc", "desc"} :
      /\ call' = [op |-> "get_user_history", n |-> started, at |-> now,
                  user_id |-> user_id,
                  rows |-> history_rows(user_id, ties),
                  result |-> get_user_history(user_id, ties)]
      /\ UNCHANGED <<db, web, started, now, database, connection, history>>
\* Time passes.
Tick ==
    /\ now < MaxTime
    /\ now' = now + 1
    /\ UNCHANGED <<db, web, started, call, history, database, connection>>

\* Database.save_game_score statement by statement. The connection of the call
\* holds the tables as its statements have left them; the stored tables change
\* at conn.commit() only, and SQLite lets one connection write at a time.

\* A variant whose connection commits each statement as it is executed.
SaveGameScoreBeginAutocommit ==
    \E user_id \in ScoreUserIds, score \in ScoreValues :
      LET inserted == Append(game_history,
                             [user_id |-> user_id, score |-> score,
                              play_time |-> 10,
                              played_at |-> CURRENT_TIMESTAMP])
      IN
      /\ connection = None
      /\ Made("save_game_score",
              [user_id |-> user_id, score |-> score, class |-> "Database"], None)
      /\ IF user_id = NoneId
         THEN UNCHANGED <<connection, game_history>>
         ELSE /\ game_history' = inserted
              /\ connection' = [op |-> "save_game_score", executed |-> "INSERT",
                                user_id |-> user_id, score |-> score,
                                game_history |-> inserted, users |-> users]
      /\ UNCHANGED <<users, user_unlocks, web, now, database, history>>

\* sqlite3.connect and the INSERT; a null user returns before connecting.
SaveGameScoreBegin ==
    \E user_id \in ScoreUserIds, score \in ScoreValues :
      /\ connection = None
      /\ Made("save_game_score",
              [user_id |-> user_id, score |-> score, class |-> "Database"], None)
      /\ IF user_id = NoneId
         THEN UNCHANGED connection
         ELSE connection' =
                [op |-> "save_game_score", executed |-> "INSERT",
                 user_id |-> user_id, score |-> score,
                 game_history |->
                     Append(game_history,
                            [user_id |-> user_id, score |-> score,
                             play_time |-> 10,
                             played_at |-> CURRENT_TIMESTAMP]),
                 users |-> users]
      /\ UNCHANGED <<db, web, now, database, history>>

\* UPDATE users SET coins = coins + ? WHERE id = ?
SaveGameScoreCredit ==
    /\ connection # None
    /\ connection.op = "save_game_score"
    /\ connection.executed = "INSERT"
    /\ connection' =
         [connection EXCEPT
            !.executed = "UPDATE",
            !.users = [id \in DOMAIN @ |->
                         IF id = connection.user_id
                         THEN [@[id] EXCEPT !.coins = @ + connection.score]
                         ELSE @[id]]]
    /\ UNCHANGED <<db, web, started, now, call, database, history>>

\* conn.commit(); conn.close()
SaveGameScoreCommit ==
    /\ connection # None
    /\ connection.op = "save_game_score"
    /\ connection.executed = "UPDATE"
    /\ game_history' = connection.game_history
    /\ users' = connection.users
    /\ connection' = None
    /\ UNCHANGED <<user_unlocks, web, started, now, call, database, history>>

\* The process dies, or a statement raises, inside a call: the connection goes
\* without a commit and SQLite discards what it had executed.
Crash ==
    /\ connection # None
    /\ connection' = None
    /\ call' = [call EXCEPT !.result = "crash"]
    /\ UNCHANGED <<db, web, started, now, database, history>>
\* Database.reset_password called from several threads at once. Each call has
\* its own connection; the UPDATE needs SQLite's write lock, which one
\* connection holds from its first write to its commit.

\* reset_password is entered: connect and hash. What held of the token at this
\* point is kept for the claims.
ResetPasswordCall(p) ==
    \E token \in Tokens, new_password \in NewPasswords :
      LET holders == {id \in UserIds :
                        /\ users[id].reset_token = token
                        /\ text_gt(users[id].reset_token_expires,
                                   adapt_datetime(now))}
      IN
      /\ pc[p] = "idle"
      /\ started < MaxRequests
      /\ started' = started + 1
      /\ pc' = [pc EXCEPT ![p] = "reset_password"]
      /\ req' = [req EXCEPT ![p] = [kind |-> "reset_password"]]
      /\ local' = [local EXCEPT ![p] =
                     [token |-> token, new_password |-> new_password,
                      holders |-> holders,
                      expires |-> IF holders = {} THEN NullTime
                                  ELSE users[CHOOSE id \in holders : TRUE]
                                           .reset_token_expires]]
      /\ UNCHANGED <<db, session, resp, ledger, watch, api>>

\* A variant that answers with what it found when it was entered.
ResetPasswordCommitReportsCheck(p) ==
    /\ pc[p] = "commit"
    /\ connection # None
    /\ connection.op = "reset_password"
    /\ connection.by = p
    /\ users' = connection.users
    /\ connection' = None
    /\ Reply(p, [result |-> local[p].holders # {}])
    /\ UNCHANGED <<game_history, user_unlocks, session, req, local, started,
                   ledger, watch, now, call, history, database>>

\* The UPDATE, once no other connection is writing: it sees what has been
\* committed and datetime.now() as of now.
ResetPasswordUpdate(p) ==
    LET r == reset_password(local[p].token, local[p].new_password) IN
    /\ pc[p] = "reset_password"
    /\ connection = None
    /\ connection' = [op |-> "reset_password", by |-> p,
                      users |-> r.users, success |-> r.success]
    /\ pc' = [pc EXCEPT ![p] = "commit"]
    /\ UNCHANGED <<db, session, req, local, resp, started, ledger, watch,
                   now, call, history, database>>

\* The write lock stays taken for longer than the connection's timeout.
ResetPasswordLocked(p) ==
    /\ pc[p] = "reset_password"
    /\ connection # None
    /\ Reply(p, [raised |-> "OperationalError"])
    /\ UNCHANGED <<db, session, req, local, started, ledger, watch, api>>

\* result = cursor.rowcount > 0; conn.commit(); conn.close(); return result
ResetPasswordCommit(p) ==
    /\ pc[p] = "commit"
    /\ connection # None
    /\ connection.op = "reset_password"
    /\ connection.by = p
    /\ users' = connection.users
    /\ connection' = None
    /\ Reply(p, [result |-> connection.success])
    /\ UNCHANGED <<game_history, user_unlocks, session, req, local, started,
                   ledger, watch, now, call, history, database>>

\* ------------------------------------------- production_database.py -----
\* A ProductionDatabase keeps one connection for all its calls. The connection
\* sees its own uncommitted statements; the stored tables change at commit.

Stored == [users |-> users, game_history |-> game_history,
           user_unlocks |-> user_unlocks]

Working == IF connection = None THEN Stored ELSE connection.tables

\* execute_query without the rollback in its except branch: what the failed
\* statement and the statements before it have written stays in the open
\* transaction.
execute_query_keeps_transaction(written, fetch, e) ==
    IF e # "none"
    THEN [tables |-> Stored,
          connection |-> [op |-> "ProductionDatabase", tables |-> written],
          raised |-> e]
    ELSE IF fetch
    THEN [tables |-> Stored,
          connection |-> IF written = Working THEN connection
                         ELSE [op |-> "ProductionDatabase", tables |-> written],
          raised |-> "none"]
    ELSE [tables |-> written, connection |-> None, raised |-> "none"]

\* execute_query(query, params, fetch_one, fetch_all): written is what the
\* tables look like to the connection once the statement has run, e what the
\* cursor or the commit raises ("none": nothing). With a fetch flag the rows
\* are returned and nothing is committed; without one the transaction is
\* committed; on an exception it is rolled back and the exception re-raised.
execute_query(written, fetch, e) ==
    IF e # "none"
    THEN [tables |-> Stored, connection |-> None, raised |-> e]
    ELSE IF fetch
    THEN [tables |-> Stored,
          connection |-> IF written = Working THEN connection
                         ELSE [op |-> "ProductionDatabase", tables |-> written],
          raised |-> "none"]
    ELSE [tables |-> written, connection |-> None, raised |-> "none"]

\* ProductionDatabase.create_user. PostgreSQL: INSERT ... RETURNING id, read
\* with fetch_one. SQLite: INSERT, committed, then self.connection.lastrowid,
\* an attribute sqlite3.Connection does not have. A row starts unverified and
\* with the coins the migration script's tables default to.
ProductionDatabase_create_user(email, username, password, verification_token, e) ==
    LET held == {id \in DOMAIN Working.users :
                   \/ Working.users[id].email = email
                   \/ Working.users[id].username = username}
        email_held == \E id \in held : Working.users[id].email = email
        written == [Working EXCEPT !.users =
                      Append(@, [email |-> email, username |-> username,
                                 password_hash |-> hash_password(password),
                                 is_verified |-> FALSE,
                                 verification_token |-> verification_token,
                                 reset_token |-> NULL,
                                 reset_token_expires |-> NullTime,
                                 coins |-> 0])]
        q == execute_query(written, database.db_type = "postgresql",
                           IF held # {} THEN "IntegrityError" ELSE e)
    IN IF q.raised = "IntegrityError"
       THEN q @@ [error |-> "ValueError",
                  message |-> IF email_held
                              THEN "Email address already registered"
                              ELSE "Username already taken",
                  result |-> None]
       ELSE IF q.raised # "none"
       THEN q @@ [error |-> q.raised, message |-> q.raised, result |-> None]
       ELSE IF database.db_type = "postgresql"
       THEN q @@ [error |-> "none", message |-> "none",
                  result |-> <<Len(written.users), verification_token>>]
       ELSE q @@ [error |-> "AttributeError",
                  message |-> "'sqlite3.Connection' object has no attribute 'lastrowid'",
                  result |-> None]

\* ProductionDatabase.get_leaderboard(limit): one row for each game record of
\* a user, highest score first; rows with equal scores come in either order.
ProductionDatabase_get_leaderboard(limit, ties) ==
    LET joined == SelectSeq([i \in DOMAIN Working.game_history |-> i],
                            LAMBDA i : Working.game_history[i].user_id
                                         \in DOMAIN Working.users)
        before(j, i) ==
            \/ Working.game_history[j].score > Working.game_history[i].score
            \/ /\ Working.game_history[j].score = Working.game_history[i].score
               /\ IF ties = "asc" THEN j < i ELSE j > i
        rows == Limit(SortSeq(joined, before), limit)
    IN [k \in DOMAIN rows |->
          [username |-> Working.users[Working.game_history[rows[k]].user_id].username,
           score |-> Working.game_history[rows[k]].score,
           timestamp |-> Working.game_history[rows[k]].played_at,
           character_used |->
               Get(Working.game_history[rows[k]], "character_used", 0)]]

StorageErrors == {"none", "OperationalError"}

\* The statements of save_game_score and update_user_coins and a SELECT,
\* run through execute_query.
Statements ==
    [sql : {"INSERT INTO game_history"}, user_id : {1, 2}, value : {10},
     fetch : {FALSE}]
    \cup [sql : {"UPDATE users SET coins"}, user_id : {1, 2}, value : {5},
          fetch : {FALSE}]
    \cup [sql : {"SELECT"}, user_id : {1}, value : {0}, fetch : {TRUE}]

Executed(statement) ==
    IF statement.sql = "INSERT INTO game_history"
    THEN [Working EXCEPT !.game_history =
            Append(@, [user_id |-> statement.user_id, score |-> statement.value,
                       play_time |-> 10, played_at |-> CURRENT_TIMESTAMP,
                       character_used |-> 0])]
    ELSE IF statement.sql = "UPDATE users SET coins"
    THEN [Working EXCEPT !.users =
            [id \in DOMAIN @ |->
               IF id = statement.user_id
               THEN [@[id] EXCEPT !.coins = statement.value] ELSE @[id]]]
    ELSE Working

\* db.execute_query(query, params, ...), the storage raising e or nothing
ExecuteQuery ==
    \E statement \in Statements, e \in StorageErrors :
      LET q == execute_query(Executed(statement), statement.fetch, e) IN
      /\ Made("execute_query",
              [sql |-> statement.sql, e |-> e, open |-> connection # None,
               raised |-> q.raised], None)
      /\ users' = q.tables.users
      /\ game_history' = q.tables.game_history
      /\ user_unlocks' = q.tables.user_unlocks
      /\ connection' = q.connection
      /\ UNCHANGED <<web, now, database, history>>

\* db.create_user(email, username, password), db a ProductionDatabase
ProductionCreateUser ==
    \E email \in {EmailA, EmailNobody}, username \in {Ann, <<"d", "e", "e">>},
       token \in Tokens, e \in StorageErrors :
      LET created == ProductionDatabase_create_user(email, username, Secret,
                                                    token, e)
      IN
      /\ Made("create_user",
              [email |-> email, username |-> username, token |-> token, e |-> e,
               class |-> "ProductionDatabase", open |-> connection # None,
               raised |-> created.error, before |-> Working.users],
              created.result)
      /\ users' = created.tables.users
      /\ game_history' = created.tables.game_history
      /\ user_unlocks' = created.tables.user_unlocks
      /\ connection' = created.connection
      /\ ledger' = [id \in DOMAIN created.tables.users |-> NoLedger]
      /\ UNCHANGED <<session, pc, req, local, resp, watch, now, database, history>>
\* db.get_leaderboard(limit), db a ProductionDatabase
ProductionGetLeaderboard ==
    \E limit \in {1, 2, DefaultLimit}, ties \in {"asc", "desc"} :
      /\ call' = [op |-> "get_leaderboard", class |-> "ProductionDatabase",
                  n |-> started, at |-> now, limit |-> limit,
                  result |-> ProductionDatabase_get_leaderboard(limit, ties)]
      /\ UNCHANGED <<db, web, started, now, database, connection, history>>

\* ---------------------------------------------------- specification -----
\* Database() on a fresh file: the three tables exist and are empty.
Init ==
    /\ users = <<>>
    /\ game_history = <<>>
    /\ user_unlocks = <<>>
    /\ session = [s \in Sessions |-> EmptyDict]
    /\ pc = [p \in Procs |-> "idle"]
    /\ req = Idle
    /\ local = Idle
    /\ resp = Idle
    /\ started = 0
    /\ ledger = <<>>
    /\ watch = [p \in Procs |->
                 [alone |-> FALSE, coins |-> 0, games |-> <<>>, guest |-> FALSE]]
    /\ now = 0
    /\ call = EmptyDict
    /\ history = NoHistory
    /\ database = Created
    /\ connection = None

\* The account and session endpoints.
NextAccounts ==
    \E p \in Procs :
        \/ Signup(p)
        \/ SignupVerify(p)
        \/ Login(p)
        \/ GuestLogin(p)
        \/ Logout(p)
        \/ Return(p)

\* The economy endpoints.
NextEconomy ==
    \E p \in Procs :
        \/ SaveScore(p)
        \/ SaveScoreInsert(p)
        \/ SaveScoreUpdate(p)
        \/ UnlockCharacter(p)
        \/ UnlockDebit(p)
        \/ UnlockInsert(p)
        \/ UpdateCoins(p)
        \/ Return(p)

Next ==
    \/ NextAccounts
    \/ NextEconomy
    \/ RequestPasswordReset
    \/ ResetPassword
    \/ CreateUser
    \/ VerifyUser
    \/ SaveGameScore
    \/ ProductionSaveGameScore
    \/ GetLeaderboard
    \/ GetUserRank
    \/ GetUserHistory
    \/ Tick
    \/ \E p \in Procs :
          Leaderboard(p) \/ History(p) \/ GetUnlocks(p) \/ GetCoins(p)
          \/ ForgotPassword(p)
          \/ UnlockDebitFails(p) \/ UnlockInsertFails(p)
          \/ Health(p)
          \/ ResetPasswordCall(p) \/ ResetPasswordUpdate(p)
          \/ ResetPasswordLocked(p) \/ ResetPasswordCommit(p)
    \/ RemoveFile
    \/ SaveGameScoreBegin
    \/ SaveGameScoreCredit
    \/ SaveGameScoreCommit
    \/ Crash
    \/ ExecuteQuery
    \/ ProductionCreateUser
    \/ ProductionGetLeaderboard

Spec == Init /\ [][Next]_vars

\* The accounts alone, from the empty store.
SpecAccounts == Init /\ [][NextAccounts]_vars

\* The store and the sessions once Ann has signed up and logged in as
\* client s1 (a state Spec reaches), client s2 holding no session.
AnnRow == [email |-> EmailA, username |-> Ann,
           password_hash |-> hash_password(Secret), is_verified |-> TRUE,
           verification_token |-> NULL, reset_token |-> NULL,
           reset_token_expires |-> NullTime, coins |-> DefaultCoins]
AnnUser == [id |-> 1, username |-> Ann, email |-> EmailA, coins |-> DefaultCoins]
InitEconomy ==
    /\ users = <<AnnRow>>
    /\ game_history = <<>>
    /\ user_unlocks = <<>>
    /\ session = [s \in Sessions |-> IF s = "s1" THEN [user |-> AnnUser]
                                                 ELSE EmptyDict]
    /\ pc = [p \in Procs |-> "idle"]
    /\ req = Idle
    /\ local = Idle
    /\ resp = Idle
    /\ started = 0
    /\ ledger = <<[scores |-> 0, costs |-> 0, kinds |-> {}, bought |-> {}]>>
    /\ watch = [p \in Procs |->
                 [alone |-> FALSE, coins |-> 0, games |-> <<>>, guest |-> FALSE]]
    /\ now = 0
    /\ call = EmptyDict
    /\ history = NoHistory
    /\ database = Created
    /\ connection = None

\* The economy endpoints of a logged-in user.
SpecEconomy == InitEconomy /\ [][NextEconomy]_vars

\* Spec reaches the initial state of SpecEconomy.
EconomyStartReached ==
    /\ users = <<AnnRow>> /\ game_history = <<>> /\ user_unlocks = <<>>
    /\ session["s1"] = [user |-> AnnUser] /\ session["s2"] = EmptyDict
    /\ Quiescent

\* Password reset: Ann and Bob have signed up (and are verified), Cy was
\* created by create_user and never verified.
BobRow == [email |-> EmailB, username |-> Bob,
           password_hash |-> hash_password(Secret), is_verified |-> TRUE,
           verification_token |-> NULL, reset_token |-> NULL,
           reset_token_expires |-> NullTime, coins |-> DefaultCoins]
CyRow == [email |-> EmailC, username |-> Cy,
          password_hash |-> hash_password(Secret), is_verified |-> FALSE,
          verification_token |-> "tok1", reset_token |-> NULL,
          reset_token_expires |-> NullTime, coins |-> DefaultCoins]
InitReset ==
    /\ users = <<AnnRow, BobRow, CyRow>>
    /\ game_history = <<>>
    /\ user_unlocks = <<>>
    /\ session = [s \in Sessions |-> EmptyDict]
    /\ pc = [p \in Procs |-> "idle"]
    /\ req = Idle
    /\ local = Idle
    /\ resp = Idle
    /\ started = 0
    /\ ledger = <<NoLedger, NoLedger, NoLedger>>
    /\ watch = [p \in Procs |->
                 [alone |-> FALSE, coins |-> 0, games |-> <<>>, guest |-> FALSE]]
    /\ now = 0
    /\ call = EmptyDict
    /\ history = NoHistory
    /\ database = Created
    /\ connection = None

NextReset == RequestPasswordReset \/ ResetPassword \/ Tick

SpecReset == InitReset /\ [][NextReset]_vars

\* Verification by token, from the empty store.
NextVerify == CreateUser \/ VerifyUser

SpecVerify == Init /\ [][NextVerify]_vars
\* Guests and logged-in users submitting scores: Ann is logged in as client
\* s1, client s2 holds no session.
NextGuest ==
    \/ \E p \in Procs :
          \/ Login(p)
          \/ GuestLogin(p)
          \/ Logout(p)
          \/ SaveScore(p)
          \/ SaveScoreInsert(p)
          \/ SaveScoreUpdate(p)
          \/ Return(p)

SpecGuest == InitEconomy /\ [][NextGuest]_vars
\* Scores stored by save_game_score directly, and the leaderboard queries,
\* over the three accounts.
NextScores ==
    \/ SaveGameScore
    \/ ProductionSaveGameScore
    \/ GetLeaderboard
    \/ GetUserRank

SpecScores == InitReset /\ [][NextScores]_vars
\* No request is being served.
NoRequest == \A q \in Procs : pc[q] = "idle"

\* The session-gated endpoints, logins and logouts, one request at a time
\* (a request is taken once the one before it has been answered): Ann is
\* logged in as client s1, client s2 holds no session.
NextGate ==
    \E p \in Procs :
        \/ NoRequest /\ Login(p)
        \/ NoRequest /\ GuestLogin(p)
        \/ NoRequest /\ Logout(p)
        \/ NoRequest /\ Leaderboard(p)
        \/ NoRequest /\ History(p)
        \/ NoRequest /\ GetUnlocks(p)
        \/ NoRequest /\ UnlockCharacter(p)
        \/ NoRequest /\ GetCoins(p)
        \/ NoRequest /\ UpdateCoins(p)
        \/ NoRequest /\ SaveScore(p)
        \/ UnlockDebit(p)
        \/ UnlockInsert(p)
        \/ SaveScoreInsert(p)
        \/ SaveScoreUpdate(p)
        \/ Return(p)

SpecGate == InitEconomy /\ [][NextGate]_vars
\* POST /api/forgot-password over the three accounts (Ann and Bob verified,
\* Cy unverified).
NextForgot == \E p \in Procs : ForgotPassword(p) \/ Return(p)

SpecForgot == InitReset /\ [][NextForgot]_vars
\* POST /api/login over the three accounts (Ann and Bob verified, Cy
\* unverified).
NextLogin == \E p \in Procs : Login(p) \/ Logout(p) \/ Return(p)

SpecLogin == InitReset /\ [][NextLogin]_vars
\* POST /api/unlock-character by Ann, logged in as client s1, with the
\* database calls of the handler failing or not.
NextUnlock ==
    \E p \in Procs :
        \/ UnlockCharacter(p)
        \/ UnlockDebit(p)
        \/ UnlockDebitFails(p)
        \/ UnlockInsert(p)
        \/ UnlockInsertFails(p)
        \/ Return(p)

SpecUnlock == InitEconomy /\ [][NextUnlock]_vars
\* The game history once Ann has played Played games, one per tick, the
\* last of them one tick before time 0, and Bob one game.
Played == 49
InitHistory ==
    /\ users = <<AnnRow, BobRow, CyRow>>
    /\ game_history =
          [i \in 1..(Played + 1) |->
              IF i <= Played
              THEN [user_id |-> 1, score |-> 10, play_time |-> 10,
                    played_at |-> i - Played - 1]
              ELSE [user_id |-> 2, score |-> 20, play_time |-> 10,
                    played_at |-> -1]]
    /\ user_unlocks = <<>>
    /\ session = [s \in Sessions |-> EmptyDict]
    /\ pc = [p \in Procs |-> "idle"]
    /\ req = Idle
    /\ local = Idle
    /\ resp = Idle
    /\ started = 0
    /\ ledger = <<NoLedger, NoLedger, NoLedger>>
    /\ watch = [p \in Procs |->
                 [alone |-> FALSE, coins |-> 0, games |-> <<>>, guest |-> FALSE]]
    /\ now = 0
    /\ call = EmptyDict
    /\ history = NoHistory
    /\ database = Created
    /\ connection = None

NextHistory == SaveGameScore \/ GetUserHistory \/ Tick

SpecHistory == InitHistory /\ [][NextHistory]_vars
\* The health endpoint. Under REPLIT_DEPLOYMENT the module starts without a
\* storage handle, and the file may or may not be there from an earlier run;
\* otherwise Database() has run at import and has created the file.
InitHealth ==
    /\ users = <<>>
    /\ game_history = <<>>
    /\ user_unlocks = <<>>
    /\ session = [s \in Sessions |-> EmptyDict]
    /\ pc = [p \in Procs |-> "idle"]
    /\ req = Idle
    /\ local = Idle
    /\ resp = Idle
    /\ started = 0
    /\ ledger = <<>>
    /\ watch = [p \in Procs |->
                 [alone |-> FALSE, coins |-> 0, games |-> <<>>, guest |-> FALSE]]
    /\ now = 0
    /\ call = EmptyDict
    /\ history = NoHistory
    /\ \/ database = Created
       \/ \E file \in BOOLEAN :
            database = [handle |-> NULL, file |-> file, deployment |-> TRUE]
    /\ connection = None

NextHealth ==
    \/ \E p \in Procs : Health(p) \/ Return(p)
    \/ RemoveFile
    \/ Tick

SpecHealth == InitHealth /\ [][NextHealth]_vars
\* Database.save_game_score statement by statement, with crashes.
NextSave ==
    \/ SaveGameScoreBegin
    \/ SaveGameScoreCredit
    \/ SaveGameScoreCommit
    \/ Crash
    \/ Tick

SpecSave == InitReset /\ [][NextSave]_vars
\* Concurrent reset_password calls on tokens that request_password_reset has
\* issued; tokens are issued between calls.
NextConsume ==
    \/ NoRequest /\ connection = None /\ RequestPasswordReset
    \/ \E p \in Procs :
         \/ ResetPasswordCall(p)
         \/ ResetPasswordUpdate(p)
         \/ ResetPasswordLocked(p)
         \/ ResetPasswordCommit(p)
         \/ Return(p)
    \/ Tick

SpecConsume == InitReset /\ [][NextConsume]_vars
\* A ProductionDatabase on either backend, over tables that hold Ann, Bob and
\* Cy, with no transaction open.
InitProduction ==
    /\ users = <<AnnRow, BobRow, CyRow>>
    /\ game_history = <<>>
    /\ user_unlocks = <<>>
    /\ session = [s \in Sessions |-> EmptyDict]
    /\ pc = [p \in Procs |-> "idle"]
    /\ req = Idle
    /\ local = Idle
    /\ resp = Idle
    /\ started = 0
    /\ ledger = <<NoLedger, NoLedger, NoLedger>>
    /\ watch = [p \in Procs |->
                 [alone |-> FALSE, coins |-> 0, games |-> <<>>, guest |-> FALSE]]
    /\ now = 0
    /\ call = EmptyDict
    /\ history = NoHistory
    /\ \E db_type \in {"postgresql", "sqlite"} :
         database = [handle |-> "ProductionDatabase", file |-> TRUE,
                     deployment |-> FALSE, db_type |-> db_type]
    /\ connection = None

NextProduction == ExecuteQuery \/ ProductionCreateUser

SpecProduction == InitProduction /\ [][NextProduction]_vars
\* The score calls of both adapters on the same tables.
NextAdapters ==
    \/ SaveGameScore
    \/ ProductionSaveGameScore
    \/ GetLeaderboard
    \/ ProductionGetLeaderboard

SpecAdapters == InitReset /\ [][NextAdapters]_vars

\* ------------------------------------------------------------ claims ----
\* The user a request acts for, and the fields of its JSON body.
Client(p) == session[req[p].sess].user.id
Score(p) == Get(req[p].data, "score", 0)
Email(p) == strip(Get(req[p].data, "email", EmptyStr))
Username(p) == strip(Get(req[p].data, "username", EmptyStr))
Password(p) == Get(req[p].data, "password", EmptyStr)
Serving(p, kind) == req[p] # EmptyDict /\ req[p].kind = kind

\* Every recorded score is positive, every paid price is positive.
PositiveScores == \A i \in DOMAIN game_history : game_history[i].score > 0
PositiveCosts(u) == \A b \in ledger[u].bought : b[2] > 0

\* C1: when every request has returned and only save-score requests (with
\* positive scores) were made for a user, the stored balance is the initial
\* balance plus the sum of the submitted scores (no lost update).
C1_NoLostScore ==
    (Quiescent /\ PositiveScores) =>
        \A u \in UserIds :
            ledger[u].kinds \subseteq {"save_score"}
                => users[u].coins = DefaultCoins + ledger[u].scores

\* C2: when every request has returned after a mix of unlock-character and
\* save-score requests for a user, the stored balance is the initial balance
\* plus the submitted scores minus the costs of the purchases that reported
\* success.
C2_NoLostUpdateInMix ==
    (Quiescent /\ PositiveScores) =>
        \A u \in UserIds :
            (ledger[u].kinds = {"save_score", "unlock_character"}
             /\ PositiveCosts(u))
                => users[u].coins
                     = DefaultCoins + ledger[u].scores - ledger[u].costs

\* C3: a save-score request of a logged-in user that runs with no other
\* request in flight appends exactly one game record with the submitted
\* score, raises the stored balance by exactly the score, and returns the
\* stored balance as coins.
C3_SingleSaveScore ==
    [][\A p \in Procs :
        (pc[p] = "update_user_coins" /\ pc'[p] = "done" /\ watch[p].alone)
        => /\ users'[Client(p)].coins = watch[p].coins + Score(p)
           /\ resp'[p] = [success |-> TRUE, coins |-> users'[Client(p)].coins]
           /\ Len(game_history') = Len(watch[p].games) + 1
           /\ SubSeq(game_history', 1, Len(watch[p].games)) = watch[p].games
           /\ LET game == game_history'[Len(game_history')] IN
              /\ game.user_id = Client(p)
              /\ game.score = Score(p)
              /\ game.play_time = Get(req[p].data, "play_time", 0)
           /\ \A u \in UserIds \ {Client(p)} : users'[u] = users[u]]_vars

C3_Witness ==
    \E p \in Procs :
        /\ pc[p] = "done" /\ Serving(p, "save_score") /\ watch[p].alone
        /\ Score(p) # 0
        /\ "coins" \in DOMAIN resp[p]
        /\ resp[p].coins = users[Client(p)].coins
        /\ users[Client(p)].coins = watch[p].coins + Score(p)
        /\ Len(game_history) = Len(watch[p].games) + 1

\* C4: a repeat of a purchase that has succeeded (same user, character and
\* positive cost), run with no other request in flight, leaves the stored
\* balance as it was before the repeat.
C4_NoDoubleCharge ==
    [][\A p \in Procs :
        (/\ pc[p] = "unlock_character" /\ pc'[p] = "done" /\ watch[p].alone
         /\ local[p].cost > 0
         /\ <<local[p].character_id, local[p].cost>> \in ledger[Client(p)].bought)
        => users'[Client(p)].coins = watch[p].coins]_vars

\* C5: unlock-character requests never drive the balance below zero: a debit
\* applied to a non-negative stored balance leaves it non-negative, and a
\* user for whom only unlock-character requests were made has a
\* non-negative balance in every state, under every interleaving.
C5_UnlockKeepsNonNegative ==
    /\ [](\A u \in UserIds :
            ledger[u].kinds \subseteq {"unlock_character"} => users[u].coins >= 0)
    /\ [][\A p \in Procs :
            (/\ pc[p] = "unlock_update_coins" /\ pc'[p] = "unlock_character"
             /\ local[p].cost >= 0 /\ users[Client(p)].coins >= 0)
            => users'[Client(p)].coins >= 0]_vars

C5_Witness ==
    \E p \in Procs :
        /\ pc[p] = "done" /\ Serving(p, "unlock_character")
        /\ resp[p].success /\ ~watch[p].alone
        /\ local[p].cost > 0
        /\ ledger[Client(p)].kinds = {"unlock_character"}
        /\ Cardinality(ledger[Client(p)].bought) = 2
        /\ users[Client(p)].coins < DefaultCoins

\* C6: every stored coin balance is >= 0 in every reachable state, whatever
\* integers the clients send as score, cost and coins.
C6_BalanceNeverNegative ==
    \A u \in UserIds : users[u].coins >= 0

\* The values create_user and authenticate_user are called with.
EmailValues == {EmailA, EmailB, EmailBad}
UsernameValues == {Ann, Bob}
PasswordValues == {Secret, Hunter, Short, EmptyStr}

\* C7: authenticate_user (of Database and of ProductionDatabase) returns
\* None for the email of every unverified account, for every password,
\* the correct one included, and for both values of skip_password_check.
C7_UnverifiedNeverAuthenticates ==
    \A id \in UserIds :
        ~users[id].is_verified =>
            \A password \in PasswordValues :
                /\ \A skip \in BOOLEAN :
                      authenticate_user(users[id].email, password, skip) = None
                /\ ProductionDatabase_authenticate_user(users[id].email, password)
                      = None

\* A login with the correct password was refused while the account was
\* still unverified.
C7_Witness ==
    \E p \in Procs, id \in UserIds :
        /\ pc[p] = "done" /\ Serving(p, "login")
        /\ ~users[id].is_verified
        /\ users[id].email = Email(p)
        /\ users[id].password_hash = hash_password(Password(p))
        /\ resp[p] = Fail("Invalid email or password")

\* C8: a login request that answers success, or that changes the session,
\* found a verified user row with the submitted email whose password_hash
\* is the hash of the submitted password, and it is that user the session
\* then holds.
C8_LoginOnlyWithCredentials ==
    [][\A p \in Procs :
        (/\ pc[p] = "idle" /\ pc'[p] = "done" /\ req'[p].kind = "login"
         /\ (resp'[p].success
             \/ session'[req'[p].sess] # session[req'[p].sess]))
        => \E id \in UserIds :
              /\ users[id].email = strip(Get(req'[p].data, "email", EmptyStr))
              /\ users[id].is_verified
              /\ users[id].password_hash
                    = hash_password(Get(req'[p].data, "password", EmptyStr))
              /\ resp'[p].success
              /\ session'[req'[p].sess].user.id = id]_vars

C8_Witness ==
    \E p \in Procs :
        /\ pc[p] = "done" /\ Serving(p, "login") /\ resp[p].success
        /\ "user" \in DOMAIN session[req[p].sess]
        /\ users[Client(p)].email = Email(p)
        /\ users[Client(p)].password_hash = hash_password(Password(p))
        /\ Len(users) = 2

\* Some user holds this email; some user holds this username.
EmailHeld(email) == \E id \in UserIds : users[id].email = email
UsernameHeld(username) == \E id \in UserIds : users[id].username = username

\* C9: create_user with a held email fails for every username, and with a
\* held username for every email: it raises ValueError and leaves the users
\* table as it is; a signup request carrying a held email or username
\* answers success:false and leaves the users table unchanged.
C9_DuplicateSignupFails ==
    /\ [](\A email \in EmailValues, username \in UsernameValues,
            password \in PasswordValues, token \in Tokens :
            (EmailHeld(email) \/ UsernameHeld(username)) =>
                /\ create_user(email, username, password, token).raised
                      = "ValueError"
                /\ create_user(email, username, password, token).users = users)
    /\ [][\A p \in Procs :
            (/\ pc[p] = "idle" /\ pc'[p] # "idle" /\ req'[p].kind = "signup"
             /\ \/ EmailHeld(strip(Get(req'[p].data, "email", EmptyStr)))
                \/ UsernameHeld(strip(Get(req'[p].data, "username", EmptyStr))))
            => /\ pc'[p] = "done"
               /\ ~resp'[p].success
               /\ users' = users]_vars

\* Two signups were refused, one for its email (with a free username), the
\* other for its username (with a free email).
C9_Witness ==
    \E p \in Procs, q \in Procs :
        /\ pc[p] = "done" /\ Serving(p, "signup")
        /\ pc[q] = "done" /\ Serving(q, "signup")
        /\ resp[p] = Fail("Email or username already exists")
        /\ resp[q] = Fail("Email or username already exists")
        /\ EmailHeld(Email(p)) /\ ~UsernameHeld(Username(p))
        /\ UsernameHeld(Username(q)) /\ ~EmailHeld(Email(q))
        /\ Len(users) = 1

\* C10: no two distinct users share an email, and no two distinct users
\* share a username.
C10_EmailAndUsernameUnique ==
    \A i \in UserIds, j \in UserIds :
        i # j => /\ users[i].email # users[j].email
                 /\ users[i].username # users[j].username

\* Two signup requests with the same email were in progress together; one
\* created the account, the other was refused.
C10_Witness ==
    \E p \in Procs, q \in Procs :
        /\ Serving(p, "signup") /\ pc[p] = "verify_user_by_id"
        /\ Serving(q, "signup") /\ pc[q] = "done"
        /\ Email(p) = Email(q)
        /\ Get(req[p].data, "email", EmptyStr) # Get(req[q].data, "email", EmptyStr)
        /\ resp[q] = Fail("Email or username already exists")
        /\ Len(users) = 2

\* A direct call of the method op has just returned.
Called(op) == call' # call /\ call'.op = op
\* The time at which the reset token t was last issued (-1: never).
IssuedAt(t) == history.issued[t]
\* The accounts that hold the reset token t.
Holders(t) == {id \in UserIds : users[id].reset_token = t}

\* C11: a reset token issued by request_password_reset at time T is rejected
\* by reset_password at every time now >= T + 1 hour, the boundary now =
\* expiry included: the call returns false and leaves every row (password
\* hash, reset token, expiry) unchanged.
C11_ExpiredTokenRejected ==
    [][\A t \in Tokens :
         (/\ Called("reset_password") /\ call'.token = t
          /\ IssuedAt(t) >= 0 /\ now >= IssuedAt(t) + Hour)
         => (call'.result = FALSE /\ users' = users)]_vars

\* reset_password was called exactly at the expiry of a token an account
\* still holds, and returned false.
C11_Witness ==
    /\ call # EmptyDict /\ call.op = "reset_password"
    /\ Holders(call.token) # {}
    /\ call.at = IssuedAt(call.token) + Hour
    /\ call.result = FALSE

\* C12: a reset token is single-use: after reset_password(t, pw1) has
\* returned true, every later reset_password(t, pw2) returns false and
\* leaves the password hash equal to hash(pw1) (no row changes), unless a
\* new request_password_reset has issued the value t again.
C12_TokenIsSingleUse ==
    [][(Called("reset_password") /\ call'.token \in history.spent)
       => /\ call'.result = FALSE
          /\ users' = users
          /\ \A e \in history.last :
                e.token = call'.token
                => users'[e.id].password_hash = hash_password(e.new_password)]_vars

\* Within the hour of its issue, a used token was presented again with
\* another password and was refused.
C12_Witness ==
    /\ call # EmptyDict /\ call.op = "reset_password"
    /\ call.token \in history.spent
    /\ call.at < IssuedAt(call.token) + Hour
    /\ call.result = FALSE
    /\ \E e \in history.last :
          e.token = call.token /\ e.new_password # call.new_password

\* C13: reset_password(t, pw) called at a time now < expiry with the
\* outstanding token t of a user returns true, sets that user's password
\* hash to hash(pw) and its reset_token and reset_token_expires to NULL;
\* afterwards authenticate_user with pw succeeds and with the old password
\* (when different from pw) returns None, and no other user's row changes.
C13_ResetReplacesPassword ==
    [][\A u \in UserIds, pw \in NewPasswords :
         (/\ Called("reset_password")
          /\ call'.new_password = pw
          /\ users[u].reset_token = call'.token
          /\ now < IssuedAt(call'.token) + Hour)
         => /\ call'.result = TRUE
            /\ users'[u].password_hash = hash_password(pw)
            /\ users'[u].reset_token = NULL
            /\ users'[u].reset_token_expires = NullTime
            /\ (authenticate_user(users[u].email, pw, FALSE))' # None
            /\ \A old \in PasswordValues :
                  (users[u].password_hash = hash_password(old) /\ old # pw)
                  => (authenticate_user(users[u].email, old, FALSE))' = None
            /\ \A v \in UserIds \ {u} : users'[v] = users[v]]_vars

\* A reset has just succeeded with a password other than the old one, while
\* another account was holding a reset token of its own.
C13_Witness ==
    /\ call # EmptyDict /\ call.op = "reset_password" /\ call.result = TRUE
    /\ call.new_password # Secret
    /\ \E u \in UserIds :
          /\ [id |-> u, token |-> call.token,
              new_password |-> call.new_password] \in history.last
          /\ users[u].password_hash = hash_password(call.new_password)
          /\ authenticate_user(users[u].email, call.new_password, FALSE) # None
          /\ authenticate_user(users[u].email, Secret, FALSE) = None
          /\ \E v \in UserIds \ {u} : users[v].reset_token \in Tokens

\* C14: a second request_password_reset for the same user replaces the
\* outstanding token: once the calls have returned t1 and then t2 # t1,
\* reset_password(t1, pw) returns false (and changes nothing) for as long as
\* the value t1 is not issued anew, while reset_password(t2, pw) called
\* before the expiry of the outstanding t2 returns true.
C14_SecondRequestReplacesToken ==
    [][\A e \in history.replaced :
         /\ (Called("reset_password") /\ call'.token = e.old)
            => (call'.result = FALSE /\ users' = users)
         /\ (/\ Called("reset_password") /\ call'.token = e.by
             /\ Holders(e.by) # {}
             /\ now < IssuedAt(e.by) + Hour)
            => call'.result = TRUE]_vars

\* The replaced token was presented within the hour of its own issue, and
\* was refused; its replacement is still outstanding.
C14_Witness ==
    /\ call # EmptyDict /\ call.op = "reset_password" /\ call.result = FALSE
    /\ call.at < IssuedAt(call.token) + Hour
    /\ \E e \in history.replaced :
          /\ e.old = call.token
          /\ Holders(e.by) # {}
          /\ call.at < IssuedAt(e.by) + Hour

\* C15: request_password_reset(email) for an email that belongs to no user
\* or to an unverified user returns None and leaves every user's reset_token
\* and reset_token_expires unchanged; a token is stored only for a verified
\* account.
C15_NoTokenForUnverified ==
    /\ [](\A id \in UserIds :
             users[id].reset_token # NULL => users[id].is_verified)
    /\ [][(/\ Called("request_password_reset")
           /\ \A id \in UserIds :
                 users[id].email = call'.email => ~users[id].is_verified)
          => /\ call'.result = NULL
             /\ \A id \in UserIds :
                   /\ users'[id].reset_token = users[id].reset_token
                   /\ users'[id].reset_token_expires
                         = users[id].reset_token_expires]_vars

\* A reset was requested for the unverified account, and None came back.
C15_Witness ==
    /\ call # EmptyDict /\ call.op = "request_password_reset"
    /\ \E id \in UserIds : users[id].email = call.email /\ ~users[id].is_verified
    /\ call.result = NULL

\* C16: verify_user(token) consumes the verification token: with a token
\* held by a user it sets is_verified true, sets verification_token to NULL
\* and returns true, so a second verify_user with the same token returns
\* false; with a token held by no user it returns false and changes no row.
C16_VerifyConsumesToken ==
    [][Called("verify_user") =>
         LET held == {id \in UserIds : users[id].verification_token = call'.token}
         IN /\ held # {} =>
                 /\ call'.result = TRUE
                 /\ \A id \in held : /\ users'[id].is_verified
                                     /\ users'[id].verification_token = NULL
                 /\ \A id \in UserIds \ held : users'[id] = users[id]
            /\ held = {} => (call'.result = FALSE /\ users' = users)
            /\ (/\ call # EmptyDict /\ call.op = "verify_user"
                /\ call.token = call'.token)
               => (call'.result = FALSE /\ users' = users)]_vars

\* verify_user has verified an account, and the next call with the same
\* token has returned false.
C16_Witness ==
    /\ call # EmptyDict /\ call.op = "verify_user"
    /\ call.again /\ call.result = FALSE
    /\ \E id \in UserIds :
          users[id].is_verified /\ users[id].verification_token = NULL

\* C17: a guest score submission is a pure no-op that never errors:
\* save_game_score(None, score, play_time), and POST /api/save-score from a
\* session without a user, add no game_history row, change no coin balance
\* and return normally (success: true at the endpoint).
C17_GuestSubmissionIsNoOp ==
    [][/\ (Called("save_game_score") /\ call'.user_id = NoneId)
          => (game_history' = game_history /\ users' = users)
       /\ \A p \in Procs :
             (/\ req[p] = EmptyDict /\ req'[p] # EmptyDict
              /\ req'[p].kind = "save_score"
              /\ "user" \notin DOMAIN session[req'[p].sess])
             => /\ game_history' = game_history /\ users' = users
                /\ pc'[p] = "done" /\ resp'[p].success = TRUE]_vars

\* C18: after POST /api/guest-login the session is an unauthenticated guest:
\* whatever the session held when guest-login was called (a user who logged
\* in earlier and did not log out included), the POST /api/save-score
\* requests that follow persist no game record and change no balance until
\* the next successful login.
C18_GuestSessionPersistsNothing ==
    [][\A p \in Procs :
         (/\ Serving(p, "save_score") /\ watch[p].guest /\ Score(p) > 0
          /\ pc'[p] # pc[p])
         => (game_history' = game_history /\ users' = users)]_vars

\* The users with a game record, and the scores recorded for a user.
Players == {u \in UserIds : \E i \in DOMAIN game_history :
                               game_history[i].user_id = u}
ScoresOf(u) == {game_history[i].score :
                  i \in {j \in DOMAIN game_history : game_history[j].user_id = u}}
IsBestOf(m, u) == m \in ScoresOf(u) /\ \A x \in ScoresOf(u) : x <= m

\* C19: Database.get_leaderboard(limit) returns at most limit entries,
\* exactly one entry per user who has at least one game record (none for
\* users without records), each entry carrying that user's maximum recorded
\* score, ordered by that score in non-increasing order; for A scoring 10
\* then 15 and B scoring 20 it returns [(B,20),(A,15)].
C19_LeaderboardIsBestPerUser ==
    (call # EmptyDict /\ call.op = "get_leaderboard") =>
      LET leaderboard == call.result
          n == Len(leaderboard)
          shown == {u \in UserIds :
                      \E i \in 1..n : leaderboard[i][1] = users[u].username}
      IN /\ n <= call.limit
         /\ n = IF Cardinality(Players) < call.limit
                THEN Cardinality(Players) ELSE call.limit
         /\ shown \subseteq Players /\ Cardinality(shown) = n
         /\ \A i \in 1..n : \E u \in Players :
               /\ leaderboard[i][1] = users[u].username
               /\ IsBestOf(leaderboard[i][2], u)
         /\ \A i, j \in 1..n : i < j => leaderboard[i][2] >= leaderboard[j][2]
         /\ \A u \in Players \ shown : \A i \in 1..n :
               \A m \in ScoresOf(u) : leaderboard[i][2] >= m
         /\ ([i \in DOMAIN game_history |->
                <<game_history[i].user_id, game_history[i].score>>]
               = <<<<1, 10>>, <<1, 15>>, <<2, 20>>>> /\ call.limit >= 2)
            => leaderboard = <<<<Bob, 20>>, <<Ann, 15>>>>

\* Ann has scored 10 then 15, Bob 20, and get_leaderboard() has returned
\* [(bob, 20), (ann, 15)].
C19_Witness ==
    /\ call # EmptyDict /\ call.op = "get_leaderboard"
    /\ call.limit = DefaultLimit
    /\ [i \in DOMAIN game_history |->
          <<game_history[i].user_id, game_history[i].score>>]
         = <<<<1, 10>>, <<1, 15>>, <<2, 20>>>>
    /\ call.result = <<<<Bob, 20>>, <<Ann, 15>>>>

C21_RankMatchesLeaderboard ==
    [][(call # EmptyDict /\ call' # EmptyDict
         /\ game_history' = game_history /\ users' = users)
       => /\ (/\ call.op = "get_leaderboard"
              /\ call.limit >= Cardinality(Players)
              /\ call'.op = "get_user_rank"
              /\ call'.user_id \in Players)
             => /\ call'.result \in DOMAIN call.result
                /\ call.result[call'.result][1]
                     = users[call'.user_id].username
          /\ (/\ call.op = "get_leaderboard"
              /\ call'.op = "get_leaderboard"
              /\ call'.limit = call.limit)
             => call'.result = call.result
          /\ (/\ call.op = "get_user_rank"
              /\ call'.op = "get_user_rank"
              /\ call'.user_id = call.user_id)
             => call'.result = call.result]_vars

\* The endpoints that begin with "if 'user' not in session".
Gated == {"leaderboard", "history", "get_unlocks", "unlock_character",
          "get_coins", "update_coins"}

\* C22: every session-gated endpoint (leaderboard, history, get-unlocks,
\* unlock-character, get-coins, update-coins) called from a session that
\* holds no user answers success:false at once and writes nothing to users,
\* game_history or user_unlocks.
C22_GatedEndpointsRejectWithoutUser ==
    [][\A p \in Procs :
         (/\ pc[p] = "idle" /\ pc'[p] # "idle"
          /\ req'[p].kind \in Gated
          /\ "user" \notin DOMAIN session[req'[p].sess])
         => /\ pc'[p] = "done"
            /\ resp'[p].success = FALSE
            /\ users' = users
            /\ game_history' = game_history
            /\ user_unlocks' = user_unlocks]_vars

\* A guest session without a user has asked to unlock a character it could
\* afford, and the request was refused with nothing written.
C22_Witness ==
    \E p \in Procs :
      /\ pc[p] = "done" /\ req[p].kind = "unlock_character"
      /\ "character_id" \in DOMAIN req[p].data
      /\ session[req[p].sess] = [guest |-> TRUE]
      /\ resp[p] = Fail("Not logged in")
      /\ user_unlocks = <<>>

\* C23: POST /api/logout clears the session, whatever it held (user, guest
\* flag, or both); a session without a user gains one only by a successful
\* login of that session; and a request from a session without a user is
\* refused with success:false by every session-gated endpoint and persists
\* nothing through POST /api/save-score.  So from a logout until the next
\* successful login of the session, the gated endpoints reject and
\* save-score stores nothing.
C23_LogoutClearsSession ==
    [][/\ \A p \in Procs :
            (pc[p] = "idle" /\ pc'[p] # "idle" /\ req'[p].kind = "logout")
            => /\ session'[req'[p].sess] = EmptyDict
               /\ resp'[p].success = TRUE
       /\ \A s \in Sessions :
            ("user" \notin DOMAIN session[s] /\ "user" \in DOMAIN session'[s])
            => \E p \in Procs :
                  /\ pc[p] = "idle" /\ pc'[p] = "done"
                  /\ req'[p].kind = "login" /\ req'[p].sess = s
                  /\ resp'[p].success = TRUE
       /\ \A p \in Procs :
            (/\ pc[p] = "idle" /\ pc'[p] # "idle"
             /\ req'[p].kind \in Gated \cup {"save_score"}
             /\ "user" \notin DOMAIN session[req'[p].sess])
            => /\ pc'[p] = "done"
               /\ req'[p].kind \in Gated => resp'[p].success = FALSE
               /\ users' = users
               /\ game_history' = game_history
               /\ user_unlocks' = user_unlocks]_vars

\* Client s1, logged in as Ann, took the guest flag as well and then logged
\* out: its session is empty, and its next request to a gated endpoint was
\* refused.
C23_Witness ==
    \E p \in Procs :
      /\ pc[p] = "done" /\ req[p].sess = "s1" /\ req[p].kind \in Gated
      /\ "s1" \in history.guests
      /\ session["s1"] = EmptyDict
      /\ resp[p].success = FALSE
      /\ users = <<AnnRow>> /\ game_history = <<>> /\ user_unlocks = <<>>

\* C24: POST /api/signup applies its checks in the order all fields
\* present, email syntactically valid, password length >= 6, password equals
\* confirmation, uniqueness: the message of the response is that of the first
\* check in this order that fails, and when one of the first four fails no
\* user row is added (create_user is not reached).
C24_SignupChecksInOrder ==
    [][\A p \in Procs :
         (pc[p] = "idle" /\ pc'[p] # "idle" /\ req'[p].kind = "signup")
         => LET data == req'[p].data
                email == strip(Get(data, "email", EmptyStr))
                username == strip(Get(data, "username", EmptyStr))
                password == Get(data, "password", EmptyStr)
                confirm_password == Get(data, "confirm_password", EmptyStr)
                present == /\ Len(email) > 0 /\ Len(username) > 0
                           /\ Len(password) > 0 /\ Len(confirm_password) > 0
                refused(message) == /\ pc'[p] = "done"
                                    /\ resp'[p] = Fail(message)
                                    /\ users' = users
            IN CASE ~present -> refused("Please fill in all fields")
                 [] present /\ ~is_valid_email(email)
                      -> refused("Please enter a valid email address")
                 [] present /\ is_valid_email(email)
                    /\ Len(password) < MinPasswordLen
                      -> refused("Password must be at least 6 characters")
                 [] present /\ is_valid_email(email)
                    /\ Len(password) >= MinPasswordLen
                    /\ password # confirm_password
                      -> refused("Passwords do not match")
                 [] OTHER ->
                      IF EmailHeld(email) \/ UsernameHeld(username)
                      THEN refused("Email or username already exists")
                      ELSE /\ pc'[p] = "verify_user_by_id"
                           /\ Len(users') = Len(users) + 1
                           /\ users'[Len(users')].email = email
                           /\ users'[Len(users')].username = username]_vars

\* Two signups that fail several checks at once were each answered with the
\* message of the first: an invalid email with a short, unconfirmed password,
\* and a short, unconfirmed password for the email and username of an
\* existing account.
C24_Witness ==
    \E p \in Procs, q \in Procs :
        /\ pc[p] = "done" /\ Serving(p, "signup")
        /\ pc[q] = "done" /\ Serving(q, "signup")
        /\ ~is_valid_email(Email(p))
        /\ Len(Password(p)) < MinPasswordLen
        /\ resp[p] = Fail("Please enter a valid email address")
        /\ is_valid_email(Email(q))
        /\ Len(Password(q)) < MinPasswordLen
        /\ Password(q) # Get(req[q].data, "confirm_password", EmptyStr)
        /\ EmailHeld(Email(q)) /\ UsernameHeld(Username(q))
        /\ resp[q] = Fail("Password must be at least 6 characters")

\* C25: whenever POST /api/signup has answered success:true, the account it
\* created is verified and its verification token is cleared, and a POST
\* /api/login with the same email and password issued after that response
\* succeeds, as that account, with no verify_user call in between.
C25_SignupAccountCanLogIn ==
    /\ [](\A p \in Procs :
            (pc[p] = "done" /\ Serving(p, "signup") /\ resp[p].success)
            => LET id == local[p].user_id IN
               /\ users[id].email = Email(p)
               /\ users[id].is_verified
               /\ users[id].verification_token = NULL
               /\ authenticate_user(Email(p), Password(p), FALSE) # None)
    /\ [][\A p, q \in Procs :
            (/\ pc[p] = "done" /\ Serving(p, "signup") /\ resp[p].success
             /\ pc[q] = "idle" /\ pc'[q] # "idle" /\ req'[q].kind = "login"
             /\ strip(Get(req'[q].data, "email", EmptyStr)) = Email(p)
             /\ Get(req'[q].data, "password", EmptyStr) = Password(p))
            => /\ pc'[q] = "done"
               /\ resp'[q].success
               /\ resp'[q].user.id = local[p].user_id
               /\ session'[req'[q].sess].user.id = local[p].user_id]_vars

\* A signup has been answered with success, and a login with its email and
\* password, taken after that answer, has succeeded.
C25_Witness ==
    \E p \in Procs, q \in Procs :
        /\ pc[p] = "done" /\ Serving(p, "signup") /\ resp[p].success
        /\ pc[q] = "done" /\ Serving(q, "login") /\ resp[q].success
        /\ Email(q) = Email(p) /\ Password(q) = Password(p)
        /\ resp[q].user.id = local[p].user_id
        /\ Len(users) = 1

\* C26: POST /api/forgot-password does not reveal the state of an account:
\* for every syntactically valid email, whether unknown, of an unverified
\* user or of a verified user, the response is the same generic failure
\* message, 'Email not found or not verified'.
C26_ForgotPasswordIsGeneric ==
    [][\A p \in Procs :
         (/\ pc[p] = "idle" /\ pc'[p] # "idle"
          /\ req'[p].kind = "forgot_password"
          /\ is_valid_email(strip(Get(req'[p].data, "email", EmptyStr))))
         => /\ pc'[p] = "done"
            /\ resp'[p] = Fail("Email not found or not verified")]_vars

\* C27: a failed POST /api/login is indistinguishable across its causes: for
\* a syntactically valid email and a non-empty password, the response for an
\* unknown email, for a wrong password on a verified account and for the
\* correct password on an unverified account is the same body, success:false
\* with 'Invalid email or password' (and the session is left as it was).
C27_LoginFailuresAlike ==
    [][\A p \in Procs :
         (pc[p] = "idle" /\ pc'[p] # "idle" /\ req'[p].kind = "login")
         => LET email == strip(Get(req'[p].data, "email", EmptyStr))
                password == Get(req'[p].data, "password", EmptyStr)
                held == {id \in UserIds : users[id].email = email}
                unknown == held = {}
                wrong == \E id \in held :
                            /\ users[id].is_verified
                            /\ users[id].password_hash # hash_password(password)
                unverified == \E id \in held :
                            /\ ~users[id].is_verified
                            /\ users[id].password_hash = hash_password(password)
            IN (/\ is_valid_email(email) /\ Len(password) > 0
                /\ (unknown \/ wrong \/ unverified))
               => /\ pc'[p] = "done"
                  /\ resp'[p] = [success |-> FALSE,
                                 message |-> "Invalid email or password"]
                  /\ session' = session]_vars

\* A login with the correct password of the unverified account and a login
\* for an email no account holds were answered with the same body as a
\* wrong password is.
C27_Witness ==
    \E p \in Procs, q \in Procs :
        /\ pc[p] = "done" /\ Serving(p, "login")
        /\ pc[q] = "done" /\ Serving(q, "login")
        /\ \E id \in UserIds :
              /\ users[id].email = Email(p) /\ ~users[id].is_verified
              /\ users[id].password_hash = hash_password(Password(p))
        /\ is_valid_email(Email(q)) /\ ~EmailHeld(Email(q))
        /\ Len(Password(q)) > 0
        /\ resp[p] = resp[q]
        /\ resp[p] = Fail("Invalid email or password")

\* C28: unlock ownership is unique per (user, category, item): whatever
\* unlock_character calls have been made, repeated ones for the same user
\* and character included, user_unlocks holds at most one row for each
\* (user_id, unlock_type, unlock_name) and get_user_unlocks(user) lists each
\* owned character exactly once.
C28_UnlocksAreUnique ==
    /\ \A i, j \in DOMAIN user_unlocks :
          (/\ user_unlocks[i].user_id = user_unlocks[j].user_id
           /\ user_unlocks[i].unlock_type = user_unlocks[j].unlock_type
           /\ user_unlocks[i].unlock_name = user_unlocks[j].unlock_name)
          => i = j
    /\ \A u \in UserIds :
          LET unlocked_characters == get_user_unlocks(u) IN
          \A i, j \in DOMAIN unlocked_characters :
              unlocked_characters[i] = unlocked_characters[j] => i = j

\* C29: POST /api/unlock-character is all-or-nothing.  A request served with
\* no other request in progress either reports success, with the stored
\* balance reduced by cost and the character among the user's unlocks, or
\* reports failure (insufficient funds, missing character id, or a storage
\* failure at any step, the one between the debit and the unlock insert
\* included) with the stored balance and the unlocks as they were when the
\* request arrived.
C29_UnlockIsAllOrNothing ==
    [][\A p \in Procs :
         (/\ pc[p] # "done" /\ pc'[p] = "done"
          /\ req'[p].kind = "unlock_character"
          /\ watch'[p].alone
          /\ "user" \in DOMAIN session[req'[p].sess])
         => LET user_id == session[req'[p].sess].user.id
                cost == Get(req'[p].data, "cost", 0)
            IN IF resp'[p].success
               THEN /\ users'[user_id].coins = watch'[p].coins - cost
                    /\ \E i \in DOMAIN user_unlocks' :
                          /\ user_unlocks'[i].user_id = user_id
                          /\ user_unlocks'[i].unlock_name
                                = str(req'[p].data.character_id)
               ELSE /\ users'[user_id].coins = watch'[p].coins
                    /\ user_unlocks' = user_unlocks]_vars

\* C30: get_user_history(u) returns only game records owned by u, at most 50
\* of them, ordered newest first (a record saved later comes before one saved
\* earlier), and when u has more than 50 records the returned ones are the 50
\* most recent.
C30_HistoryIsNewestFirst ==
    (call # EmptyDict /\ call.op = "get_user_history") =>
      LET rows == call.rows
          n == Len(rows)
          own == HistoryOf(call.user_id)
      IN /\ Len(call.result) = n
         /\ \A k \in 1..n :
               /\ rows[k] \in own
               /\ call.result[k][1] = game_history[rows[k]].score
               /\ call.result[k][2] = game_history[rows[k]].play_time
               /\ call.result[k][3] = game_history[rows[k]].played_at
         /\ n <= HistoryLimit
         /\ n = IF Cardinality(own) < HistoryLimit
                THEN Cardinality(own) ELSE HistoryLimit
         /\ \A i, j \in 1..n : i < j => rows[i] > rows[j]
         /\ \A r \in own : (\A k \in 1..n : rows[k] # r)
                           => \A k \in 1..n : r < rows[k]

\* C31: GET /health always answers HTTP 200. When nothing raises, the storage
\* handle exists after the request (it is created during the request if it did
\* not exist) and the answer reports status "ok"; when obtaining or
\* initializing the storage raises, the answer still has code 200 and carries
\* status "degraded" and database "error".
C31_HealthDegrades ==
    [][\A p \in Procs :
         (pc[p] = "idle" /\ pc'[p] = "done" /\ req'[p].kind = "health") =>
           /\ resp'[p].http = 200
           /\ IF "e" \in DOMAIN local'[p]
              THEN /\ resp'[p].status = "degraded"
                   /\ resp'[p].database = "error"
              ELSE /\ database'.handle = "Database"
                   /\ database'.file
                   /\ resp'[p].status = "ok"
                   /\ resp'[p].database = "connected"]_vars

\* A request found no storage handle and created it, and another request
\* has been answered "degraded" because the storage raised.
C31_Witness ==
    \E p, q \in Procs :
      /\ pc[p] = "done" /\ req[p].kind = "health"
      /\ resp[p].status = "degraded" /\ resp[p].database = "error"
      /\ resp[p].http = 200
      /\ pc[q] = "done" /\ req[q].kind = "health"
      /\ resp[q].status = "ok"
      /\ database.deployment /\ database.handle = "Database"

\* C32: Database.save_game_score for a non-null user commits the game_history
\* insert and the coin credit together: whenever the stored game_history or
\* the stored balances change, exactly one record is added and its user's
\* balance grows by its score in the same step, and nobody else's changes.
\* A crash inside the call changes neither.
C32_RecordAndCreditTogether ==
    [][(game_history' # game_history \/ users' # users) =>
         /\ Len(game_history') = Len(game_history) + 1
         /\ SubSeq(game_history', 1, Len(game_history)) = game_history
         /\ LET game == game_history'[Len(game_history')] IN
            /\ game.user_id \in UserIds
            /\ users' = [users EXCEPT
                           ![game.user_id].coins = @ + game.score]]_vars

\* One call has committed its record and its credit, and the next one was cut
\* short and has left nothing behind.
C32_Witness ==
    /\ connection = None
    /\ call # EmptyDict
    /\ call.op = "save_game_score" /\ call.n = 2 /\ call.user_id = 1
    /\ call.result = "crash"
    /\ Len(game_history) = 1
    /\ users[1].coins = DefaultCoins + game_history[1].score

\* C33: when two reset_password calls with the same token, outstanding when
\* each call was entered and unexpired until both have finished, and with
\* different new passwords have both finished, exactly one of them has
\* returned true, and the stored password hash of the token's account is the
\* hash of that call's new password.
C33_TokenConsumedOnce ==
    \A p, q \in Procs :
      ( /\ p # q
        /\ pc[p] = "done" /\ req[p].kind = "reset_password"
        /\ pc[q] = "done" /\ req[q].kind = "reset_password"
        /\ local[p].token = local[q].token
        /\ local[p].new_password # local[q].new_password
        /\ local[p].holders # {} /\ local[q].holders # {}
        /\ text_gt(local[p].expires, adapt_datetime(now)) )
      => \E w \in {p, q} :
           /\ Get(resp[w], "result", FALSE)
           /\ \A l \in {p, q} \ {w} : ~Get(resp[l], "result", FALSE)
           /\ \A id \in local[w].holders :
                users[id].password_hash = hash_password(local[w].new_password)

\* Two calls with the same outstanding token and different passwords have
\* overlapped (the second was entered before the first wrote) and finished:
\* one returned true, the other false.
C33_Witness ==
    \E p, q \in Procs :
      /\ p # q
      /\ pc[p] = "done" /\ req[p].kind = "reset_password"
      /\ pc[q] = "done" /\ req[q].kind = "reset_password"
      /\ local[p].token = local[q].token
      /\ local[p].new_password # local[q].new_password
      /\ local[p].holders # {} /\ local[q].holders # {}
      /\ text_gt(local[p].expires, adapt_datetime(now))
      /\ Get(resp[p], "result", FALSE)
      /\ "result" \in DOMAIN resp[q] /\ ~resp[q].result

\* C34: when a statement run through ProductionDatabase.execute_query raises,
\* the caller gets the exception the storage raised, the connection has no
\* open transaction left (it was rolled back) and the stored tables are
\* what they were: no write of the failed call is committed.
C34_FailedQueryRollsBack ==
    [][(Called("execute_query") /\ call'.e # "none") =>
         /\ call'.raised = call'.e
         /\ connection' = None
         /\ users' = users
         /\ game_history' = game_history
         /\ user_unlocks' = user_unlocks]_vars

\* A statement has raised while a transaction was open; the exception reached
\* the caller and the transaction is gone.
C34_Witness ==
    /\ call # EmptyDict
    /\ call.op = "execute_query"
    /\ call.e = "OperationalError" /\ call.raised = "OperationalError"
    /\ call.open
    /\ connection = None
    /\ Len(users) = 3

\* C35: ProductionDatabase.create_user with an email and a username that no
\* user holds, the storage raising nothing, returns (user id, verification
\* token) without raising, and the users its connection sees afterwards are
\* the users before plus one, unverified, with that email and username: on
\* the PostgreSQL backend and on the SQLite backend.
C35_ProductionCreateUserReturns ==
    [][(/\ Called("create_user")
        /\ call'.class = "ProductionDatabase"
        /\ call'.e = "none"
        /\ \A id \in DOMAIN call'.before :
              /\ call'.before[id].email # call'.email
              /\ call'.before[id].username # call'.username)
       => /\ call'.raised = "none"
          /\ call'.result = <<Len(call'.before) + 1, call'.token>>
          /\ Len(Working'.users) = Len(call'.before) + 1
          /\ SubSeq(Working'.users, 1, Len(call'.before)) = call'.before
          /\ LET user == Working'.users[Len(Working'.users)] IN
             /\ user.email = call'.email
             /\ user.username = call'.username
             /\ ~user.is_verified]_vars

\* C36: the two storage adapters are interchangeable for score recording:
\* a ProductionDatabase.save_game_score call leaves every user with the coin
\* balance Database.save_game_score leaves from the same tables, and a
\* ProductionDatabase.get_leaderboard call returns the (username, best score)
\* entries, in the order, of a Database.get_leaderboard call on those tables.
C36_AdaptersInterchangeable ==
    [][/\ (Called("save_game_score") /\ call'.class = "ProductionDatabase")
          => users' = save_game_score(call'.user_id, call'.score, 10).users
       /\ (Called("get_leaderboard")
             /\ Get(call', "class", "Database") = "ProductionDatabase")
          => \E ranked \in ranked_users :
               [k \in DOMAIN call'.result |->
                  <<call'.result[k].username, call'.result[k].score>>]
                 = get_leaderboard(call'.limit, ranked)]_vars

\* C37: a POST /api/login that fails, by validation or by authentication,
\* leaves every session as it was; a session that held a user before the
\* failed login holds the same user after it and so still passes the
\* 'user' in session gate.
C37_FailedLoginKeepsSession ==
    [][\A p \in Procs :
         (/\ pc[p] = "idle" /\ pc'[p] = "done"
          /\ req'[p].kind = "login"
          /\ ~resp'[p].success)
         => /\ session' = session
            /\ ("user" \in DOMAIN session[req'[p].sess])
                 => /\ "user" \in DOMAIN session'[req'[p].sess]
                    /\ session'[req'[p].sess].user
                         = session[req'[p].sess].user]_vars

\* A login with a wrong password was refused in a session that held a user
\* when the request came in, and the session still holds a user.
C37_Witness ==
    \E p \in Procs :
      /\ pc[p] = "done" /\ req[p].kind = "login"
      /\ ~resp[p].success
      /\ resp[p].message = "Invalid email or password"
      /\ watch[p].coins = DefaultCoins
      /\ "user" \in DOMAIN session[req[p].sess]

=============================================================================
